---------------------------- MODULE Spec2Model ----------------------------
(***************************************************************************)
(* Model of the WhatsApp gateway service (WhatsappService): the handlers   *)
(* of the transport's "message" and "message_create" events, sendMedia,    *)
(* the in-memory set processedMsgIds, the tables user_whatsapp and users   *)
(* behind PostgresService.query, and the Socket.IO broadcast io.emit.      *)
(*                                                                         *)
(* Strings that the code inspects character by character (message bodies,  *)
(* addresses) are sequences of one-character strings.  An async handler is *)
(* one record of `calls`; it advances from one await to the next, so the   *)
(* handlers of different events interleave at their awaits, as they do on  *)
(* the event loop.                                                         *)
(***************************************************************************)
EXTENDS Integers, Sequences, FiniteSets, TLC

VARIABLES
    live,              \* the service processes that are running
    limit,             \* how many handler invocations the run may start
    menu,              \* the transport messages that may be delivered
    requests,          \* the send requests the API may receive
    sent,              \* the messages the transport created for our sends
    ready,             \* ready[i]: WhatsappService.ready of process i
    processedMsgIds,   \* processedMsgIds[i]: the static Set of process i
    store,             \* table user_whatsapp (shared), in insertion order
    users,             \* table users (shared), in insertion order
    emitted,           \* emitted[i]: what io.emit of process i has published
    replies,           \* msg.reply calls that succeeded, in order
    calls,             \* every handler invocation, running or finished
    faults,            \* number of collaborator failures injected so far
    now,               \* the clock read by Date.now() / new Date()
    history            \* the page's list of messages (useState in page.tsx)

vars == <<live, limit, menu, requests, sent, ready, processedMsgIds, store, users, emitted, replies,
          calls, faults, now, history>>

-----------------------------------------------------------------------------
(* Bounds of the model *)

MaxEvents == 3
MaxSharedEvents == 2
MaxInFlight == 2
MaxFaults == 1
MaxSendEvents == 3
MaxQueryEvents == 3
MaxClock == 1
MaxDedupEvents == 3
MaxPhoneEvents == 1
MaxMediaEvents == 2
MaxByPhoneEvents == 3
MaxLifeEvents == 3
MaxPasswordEvents == 1
MaxAddressEvents == 3
MaxRandomSteps == 3
MaxFrontEvents == 2
MaxDirectionEvents == 2

(* if (WhatsappService.processedMsgIds.size > 2000) clear() *)
DedupThreshold == 2000

Instances == {1, 2}

-----------------------------------------------------------------------------
(* Characters and strings *)

UpperSeq == <<"A","B","C","D","E","F","G","H","I","J","K","L","M",
              "N","O","P","Q","R","S","T","U","V","W","X","Y","Z">>
LowerSeq == <<"a","b","c","d","e","f","g","h","i","j","k","l","m",
              "n","o","p","q","r","s","t","u","v","w","x","y","z">>
DigitChars == {"0","1","2","3","4","5","6","7","8","9"}
Whitespace == {" ", "\t", "\n"}

Range(s) == {s[k] : k \in DOMAIN s}
Letters == Range(UpperSeq) \cup Range(LowerSeq)

Null == <<"NULL">>

\* String.prototype.toLowerCase
ToLowerChar(c) ==
    IF c \in Range(UpperSeq)
    THEN LowerSeq[CHOOSE k \in DOMAIN UpperSeq : UpperSeq[k] = c]
    ELSE c
ToLowerCase(s) == [k \in DOMAIN s |-> ToLowerChar(s[k])]

\* String.prototype.trim
RECURSIVE TrimLeft(_)
TrimLeft(s) ==
    IF s # <<>> /\ Head(s) \in Whitespace THEN TrimLeft(Tail(s)) ELSE s
RECURSIVE TrimRight(_)
TrimRight(s) ==
    IF s # <<>> /\ s[Len(s)] \in Whitespace
    THEN TrimRight(SubSeq(s, 1, Len(s) - 1))
    ELSE s
Trim(s) == TrimRight(TrimLeft(s))

\* String.prototype.startsWith
StartsWith(s, p) == Len(s) >= Len(p) /\ SubSeq(s, 1, Len(p)) = p

\* String.prototype.substring(from) and substring(from, to), 0-based
Substring(s, from) == SubSeq(s, from + 1, Len(s))
Substring2(s, from, to) == SubSeq(s, from + 1, to)

\* str.replace(/\D/g, "")
IsDigit(c) == c \in DigitChars
DigitsOnly(s) == SelectSeq(s, IsDigit)

RegisterPrefix == <<"r","e","g","i","s","t","e","r"," ">>

\* isValidName without the length test on the trimmed text
isValidNameNoLength(text) ==
    /\ Len(text) >= 1
    /\ \A k \in DOMAIN text : text[k] \in Letters \cup Whitespace

\* /^[a-zA-Z\s]+$/.test(text) && text.trim().length >= 2
isValidName(text) ==
    /\ Len(text) >= 1
    /\ \A k \in DOMAIN text : text[k] \in Letters \cup Whitespace
    /\ Len(Trim(text)) >= 2

\* the split that recognizes a prefix whatever the length of the digits
extractCountryCodeAndPhoneNoLength(fullPhone) ==
    LET digitsOnly == DigitsOnly(fullPhone)
        n == Len(digitsOnly)
    IN  IF StartsWith(digitsOnly, <<"9","1">>) /\ n > 10
        THEN [countryCode |-> <<"9","1">>, phoneNumber |-> Substring(digitsOnly, 2)]
        ELSE IF StartsWith(digitsOnly, <<"1">>) /\ n > 10
        THEN [countryCode |-> <<"1">>, phoneNumber |-> Substring(digitsOnly, 1)]
        ELSE IF StartsWith(digitsOnly, <<"4","4">>) /\ n > 10
        THEN [countryCode |-> <<"4","4">>, phoneNumber |-> Substring(digitsOnly, 2)]
        ELSE IF StartsWith(digitsOnly, <<"8","6">>) /\ n > 10
        THEN [countryCode |-> <<"8","6">>, phoneNumber |-> Substring(digitsOnly, 2)]
        ELSE IF n > 10
        THEN [countryCode |-> Substring2(digitsOnly, 0, n - 10),
              phoneNumber |-> Substring(digitsOnly, n - 10)]
        ELSE [countryCode |-> <<>>, phoneNumber |-> digitsOnly]

\* the split whose China case cuts the subscriber number one digit late
extractCountryCodeAndPhoneLateCut(fullPhone) ==
    LET digitsOnly == DigitsOnly(fullPhone)
        n == Len(digitsOnly)
    IN  IF StartsWith(digitsOnly, <<"9","1">>) /\ n = 12
        THEN [countryCode |-> <<"9","1">>, phoneNumber |-> Substring(digitsOnly, 2)]
        ELSE IF StartsWith(digitsOnly, <<"1">>) /\ n = 11
        THEN [countryCode |-> <<"1">>, phoneNumber |-> Substring(digitsOnly, 1)]
        ELSE IF StartsWith(digitsOnly, <<"4","4">>) /\ n = 12
        THEN [countryCode |-> <<"4","4">>, phoneNumber |-> Substring(digitsOnly, 2)]
        ELSE IF StartsWith(digitsOnly, <<"8","6">>) /\ n = 13
        THEN [countryCode |-> <<"8","6">>, phoneNumber |-> Substring(digitsOnly, 3)]
        ELSE IF n > 10
        THEN [countryCode |-> Substring2(digitsOnly, 0, n - 10),
              phoneNumber |-> Substring(digitsOnly, n - 10)]
        ELSE [countryCode |-> <<>>, phoneNumber |-> digitsOnly]

\* extractCountryCodeAndPhone(fullPhone): the digits of fullPhone, split by
\* the cases India 91/12, US 1/11, UK 44/12, China 86/13, then the default
extractCountryCodeAndPhone(fullPhone) ==
    LET digitsOnly == DigitsOnly(fullPhone)
        n == Len(digitsOnly)
    IN  IF StartsWith(digitsOnly, <<"9","1">>) /\ n = 12
        THEN [countryCode |-> <<"9","1">>, phoneNumber |-> Substring(digitsOnly, 2)]
        ELSE IF StartsWith(digitsOnly, <<"1">>) /\ n = 11
        THEN [countryCode |-> <<"1">>, phoneNumber |-> Substring(digitsOnly, 1)]
        ELSE IF StartsWith(digitsOnly, <<"4","4">>) /\ n = 12
        THEN [countryCode |-> <<"4","4">>, phoneNumber |-> Substring(digitsOnly, 2)]
        ELSE IF StartsWith(digitsOnly, <<"8","6">>) /\ n = 13
        THEN [countryCode |-> <<"8","6">>, phoneNumber |-> Substring(digitsOnly, 2)]
        ELSE IF n > 10
        THEN [countryCode |-> Substring2(digitsOnly, 0, n - 10),
              phoneNumber |-> Substring(digitsOnly, n - 10)]
        ELSE [countryCode |-> <<>>, phoneNumber |-> digitsOnly]


-----------------------------------------------------------------------------
(* Addresses and transport messages *)

\* this.client.info.wid._serialized of the paired session
OwnId == <<"9","1","1","2","3","4","5","6","7","8","9","0","@","c",".","u","s">>
CustId == <<"9","1","9","8","7","6","5","4","3","2","1","0","@","c",".","u","s">>
GroupId == <<"1","2","0","3","6","3","@","g",".","u","s">>
OtherId == <<"1","4","1","5","5","5","5","0","1","2","3","@","c",".","u","s">>

Str_RegisterAl == <<"R","e","g","i","s","t","e","r"," ","A","l">>
Str_registerBo == <<" ","r","e","g","i","s","t","e","r"," ","B","o"," ">>
Str_RegisterA1 == <<"R","e","g","i","s","t","e","r"," ","A","1">>
Str_RegisterX  == <<"R","E","G","I","S","T","E","R"," ","X"," ">>
Str_hi == <<"h","i">>
Str_Empty == <<>>

Msg(id, fromMe, from, author, to, hasMedia, body, mimetype) ==
    [id |-> id, fromMe |-> fromMe, from |-> from, author |-> author, to |-> to,
     hasMedia |-> hasMedia, body |-> body, mimetype |-> mimetype]

MsgRegisterAl == Msg("m1", FALSE, CustId, Null, OwnId, FALSE, Str_RegisterAl, Null)
MsgRegisterBo == Msg("m2", FALSE, CustId, Null, OwnId, FALSE, Str_registerBo, Null)
MsgRegisterA1 == Msg("m3", FALSE, CustId, Null, OwnId, FALSE, Str_RegisterA1, Null)
MsgRegisterX  == Msg("m4", FALSE, CustId, Null, OwnId, FALSE, Str_RegisterX, Null)
MsgPhoto      == Msg("m5", FALSE, CustId, Null, OwnId, TRUE, Str_Empty, <<"image/jpeg">>)
MsgBlob       == Msg("m6", FALSE, CustId, Null, OwnId, TRUE, Str_hi, <<"application/x-unknown">>)
MsgSelfRegister == Msg("m7", TRUE, OwnId, Null, CustId, FALSE, Str_RegisterAl, Null)
MsgOwnFrom    == Msg("m8", FALSE, OwnId, Null, CustId, FALSE, Str_hi, Null)
MsgGroupEcho  == Msg("m9", FALSE, GroupId, OwnId, Null, FALSE, Str_RegisterAl, Null)
MsgSelfPhoto  == Msg("m10", TRUE, OwnId, Null, CustId, TRUE, Str_Empty, <<"image/jpeg">>)
MsgPhoto2     == Msg("m13", FALSE, OtherId, Null, OwnId, TRUE, Str_Empty, <<"image/jpeg">>)
MsgHi         == Msg("m11", FALSE, CustId, Null, OwnId, FALSE, Str_hi, Null)
MsgOther      == Msg("m12", FALSE, OtherId, Null, OwnId, FALSE, Str_hi, Null)
\* three plain texts for the dedup set: the first that was recorded, two new
MsgFirst      == Msg("p1", FALSE, CustId, Null, OwnId, FALSE, Str_hi, Null)
MsgNew1       == Msg("n1", FALSE, CustId, Null, OwnId, FALSE, Str_hi, Null)
MsgNew2       == Msg("n2", FALSE, CustId, Null, OwnId, FALSE, Str_hi, Null)

AllMessages == {MsgRegisterAl, MsgRegisterBo, MsgRegisterA1, MsgRegisterX,
                MsgPhoto, MsgBlob, MsgSelfRegister, MsgOwnFrom, MsgGroupEcho,
                MsgSelfPhoto}

\* Math.random() returns a value v / RandomDen with 0 <= v < RandomDen; the
\* model keeps v, in half steps of the index of a letter.  RandomValues are
\* the values the draws are taken from: the least, the greatest and values
\* between them.
RandomDen == 2 * Len(UpperSeq)
RandomValues == {(k * (RandomDen - 1)) \div MaxRandomSteps : k \in 0..MaxRandomSteps}

\* chars.charAt(k): the character at index k, "" outside the string
CharAt(chars, k) == IF k \in 0..(Len(chars) - 1) THEN <<chars[k + 1]>> ELSE <<>>

\* Math.floor(Math.random() * chars.length)
FloorIndex(v, n) == (v * n) \div RandomDen
\* Math.ceil(Math.random() * chars.length)
CeilIndex(v, n) == (v * n + RandomDen - 1) \div RandomDen

RECURSIVE Concat(_)
Concat(parts) == IF parts = <<>> THEN <<>> ELSE Head(parts) \o Concat(Tail(parts))

\* generatePassword(length = 4)
PasswordLength == 4

\* the loop with the index rounded up
generatePasswordCeil(draws) ==
    Concat([k \in 1..Len(draws) |-> CharAt(UpperSeq, CeilIndex(draws[k], Len(UpperSeq)))])

\* for (i < length) result += chars.charAt(Math.floor(Math.random() * chars.length));
\* draws: the values Math.random() returned, in order
generatePassword(draws) ==
    Concat([k \in 1..Len(draws) |-> CharAt(UpperSeq, FloorIndex(draws[k], Len(UpperSeq)))])

\* what generatePassword() returns for the draws of RandomValues
GeneratedPasswords == {generatePassword(d) : d \in [1..PasswordLength -> RandomValues]}

\* two passwords, for the runs in which the draw does not matter
Passwords == {generatePassword(<<0, 2, 4, 6>>), generatePassword(<<51, 32, 20, 0>>)}

\* mime.extension(mimetype) || "bin"
MimeExtension(mimetype) ==
    IF mimetype = <<"image/jpeg">> THEN "jpeg"
    ELSE IF mimetype = <<"audio/mpeg">> THEN "mpga"
    ELSE IF mimetype = <<"application/pdf">> THEN "pdf"
    ELSE "bin"

-----------------------------------------------------------------------------
(* Handler invocations *)

NoAtt == [name |-> Null, path |-> Null, type |-> Null]
NoReg == [countryCode |-> Null, phoneNumber |-> Null, name |-> Null, password |-> Null]
NoRow == [msg_id |-> "", in_out |-> "", sender |-> Null, receiver |-> Null,
          message |-> Null, attachment_name |-> Null, attachment_path |-> Null,
          attachment_type |-> Null, edate |-> 0]

NoData == [msg_id |-> ""]

\* data: the object the handler passed to io.emit; row: the parameters of
\* its INSERT.  result: what the awaited calls of a send or of getMessages
\* resolved with, in order (the transport's messages, or the rows of the query)
Call(i, kind, m, pc, why) ==
    [inst |-> i, kind |-> kind, msg |-> m, pc |-> pc, why |-> why,
     att |-> NoAtt, reg |-> NoReg, data |-> NoData, row |-> NoRow, result |-> <<>>]

Finished(c) == c.pc \in {"returned", "rejected"}
Running == {n \in DOMAIN calls : ~Finished(calls[n])}
RunningAt(pc) == {n \in DOMAIN calls : calls[n].pc = pc}

CanStart(i) ==
    /\ i \in live
    /\ Len(calls) < limit
    /\ Cardinality(Running) < MaxInFlight

CanFail == faults < MaxFaults


Set(n, c) == [calls EXCEPT ![n] = c]

-----------------------------------------------------------------------------
(* PostgresService.query on the two tables *)

\* INSERT INTO user_whatsapp under the unique index on msg_id: the statement
\* fails with a unique violation when a row with that msg_id exists.
UniqueViolation(st, row) == \E k \in DOMAIN st : st[k].msg_id = row.msg_id
\* the INSERT on a table without the unique index
InsertRowNoIndex(st, row) == Append(st, row)
\* the INSERT as a REPLACE: a stored row with that msg_id is dropped first
InsertRowReplace(st, row) ==
    Append(SelectSeq(st, LAMBDA r : r.msg_id # row.msg_id), row)
InsertRow(st, row) == IF UniqueViolation(st, row) THEN st ELSE Append(st, row)

\* SELECT phone FROM users WHERE country_code = $1 AND phone = $2
SelectUsers(us, countryCode, phoneNumber) ==
    SelectSeq(us, LAMBDA u : u.country_code = countryCode /\ u.phone = phoneNumber)

\* INSERT INTO users (country_code, phone, name, password_plain, ...)
UserRow(reg) ==
    [country_code |-> reg.countryCode, phone |-> reg.phoneNumber,
     name |-> reg.name, password_plain |-> reg.password]

-----------------------------------------------------------------------------
(* client.on("message", ...) *)

\* the echo guard without the test of msg.author
IsFromMeNoAuthor(m) == m.fromMe \/ m.from = OwnId

\* the echo guard that tests the flag alone
IsFromMeFlagOnly(m) == m.fromMe

\* if (msg.fromMe || msg.from === ourId || msg.author === ourId) return;
IsFromMe(m) == m.fromMe \/ m.from = OwnId \/ m.author = OwnId

\* a check that does not record the id
AddProcessedNever(ids, id) == ids
\* the add without the clear
AddProcessedNoClear(ids, id) == ids \cup {id}
\* the add with a clear that comes one id late
AddProcessedLateClear(ids, id) ==
    IF Cardinality(ids \cup {id}) > DedupThreshold + 1 THEN {} ELSE ids \cup {id}

\* processedMsgIds.add(id); if (size > 2000) clear();
AddProcessed(ids, id) ==
    IF Cardinality(ids \cup {id}) > DedupThreshold THEN {} ELSE ids \cup {id}

\* const isRegister = text.toLowerCase().startsWith("register ");
IsRegister(body) == StartsWith(ToLowerCase(Trim(body)), RegisterPrefix)
\* const name = text.substring(9).trim();
RegisterName(body) == Trim(Substring(Trim(body), 9))

\* a registration block that does not test the name
WantsRegistrationAnyName(m) ==
    /\ ~m.hasMedia
    /\ m.body # <<>>
    /\ IsRegister(m.body)

\* The registration block is entered and reaches the SELECT.
WantsRegistration(m) ==
    /\ ~m.hasMedia
    /\ m.body # <<>>
    /\ IsRegister(m.body)
    /\ isValidName(RegisterName(m.body))

\* const data = {...} of the "message" handler
IncomingData(m, att, t) ==
    [msg_id |-> m.id, in_out |-> "I", sender |-> m.from,
     receiver |-> IF m.to # Null THEN m.to ELSE OwnId,
     message |-> m.body,
     attachment_url |-> att.path, attachment_name |-> att.name,
     attachment_type |-> att.type, edate |-> t]

\* the parameters of the INSERT INTO user_whatsapp of the "message" handler
IncomingRow(m, att, t) ==
    [msg_id |-> m.id, in_out |-> "I", sender |-> m.from,
     receiver |-> IF m.to # Null THEN m.to ELSE OwnId,
     message |-> m.body,
     attachment_name |-> att.name, attachment_path |-> att.path,
     attachment_type |-> att.type, edate |-> t]

Emit(i, event, data) ==
    emitted' = [emitted EXCEPT ![i] = Append(@, [event |-> event, data |-> data])]

\* The handlers read the clock twice in one synchronous run: `new Date()`
\* for data.edate, then `new Date()` in the parameters of the INSERT.  With
\* the second read returning t, the first returned t or the tick before.
EarlierReads(t) == IF t > 0 THEN {t - 1, t} ELSE {t}

\* this.io.emit("message", data); await this.db.query(INSERT ...): the
\* broadcast is made and the INSERT is issued in the same synchronous run.
SaveIncoming(n, c) ==
    \E t \in EarlierReads(now) :
        /\ Emit(c.inst, "message", IncomingData(c.msg, c.att, t))
        /\ calls' = Set(n, [c EXCEPT !.pc = "insert",
                                     !.data = IncomingData(c.msg, c.att, t),
                                     !.row = IncomingRow(c.msg, c.att, now)])

\* From the dedup check to the first await of the handler: the media
\* download, the SELECT of the registration block, or the INSERT of the row.
Incoming(i, m, kind) ==
    IF m.id \in processedMsgIds[i]
    THEN /\ calls' = Append(calls, Call(i, kind, m, "returned", "duplicate"))
         /\ UNCHANGED <<processedMsgIds, emitted>>
    ELSE /\ processedMsgIds' = [processedMsgIds EXCEPT ![i] = AddProcessed(@, m.id)]
         /\ IF m.hasMedia
            THEN /\ calls' = Append(calls, Call(i, kind, m, "download", ""))
                 /\ UNCHANGED emitted
            ELSE IF WantsRegistration(m)
            THEN /\ calls' = Append(calls,
                      [Call(i, kind, m, "select", "") EXCEPT
                         !.reg = [NoReg EXCEPT
                            !.countryCode =
                                extractCountryCodeAndPhone(DigitsOnly(m.from)).countryCode,
                            !.phoneNumber =
                                extractCountryCodeAndPhone(DigitsOnly(m.from)).phoneNumber,
                            !.name = RegisterName(m.body)]])
                 /\ UNCHANGED emitted
            ELSE \E t \in EarlierReads(now) :
                    /\ Emit(i, "message", IncomingData(m, NoAtt, t))
                    /\ calls' = Append(calls,
                               [Call(i, kind, m, "insert", "") EXCEPT
                                   !.data = IncomingData(m, NoAtt, t),
                                   !.row = IncomingRow(m, NoAtt, now)])

\* The event is delivered; the handler runs up to its first await.  The
\* transport delivers message events once the session is established
\* (client.info is set, "ready" has fired), so ourId is the own address.
OnMessage(i, m) ==
    /\ CanStart(i)
    /\ ready[i]
    /\ m \in menu
    /\ IF IsFromMe(m)
       THEN /\ calls' = Append(calls, Call(i, "message", m, "returned", "echo"))
            /\ UNCHANGED <<processedMsgIds, emitted>>
       ELSE Incoming(i, m, "message")
    /\ UNCHANGED <<history, live, limit, menu, requests, sent, ready, store, users, replies,
                   faults, now>>

\* const ext = mime.extension(media.mimetype) || "bin";
\* attachment_name = `incoming-${Date.now()}.${ext}`;
IncomingName(mimetype, t) == <<"incoming-", ToString(t), ".", MimeExtension(mimetype)>>

\* The try block around downloadMedia and writeFileSync.  attachment_name is
\* assigned before fs.writeFileSync, attachment_path and attachment_type
\* after it; the catch block only logs.
MediaAttachment(m, outcome, t) ==
    IF outcome = "ok"
    THEN [name |-> IncomingName(m.mimetype, t),
          path |-> <<"uploads/">> \o IncomingName(m.mimetype, t),
          type |-> m.mimetype]
    ELSE IF outcome = "write_error"
    THEN [name |-> IncomingName(m.mimetype, t), path |-> Null, type |-> Null]
    ELSE NoAtt

MediaOutcomes == {"ok", "download_error", "write_error"}

\* await msg.downloadMedia() settles; msg.hasMedia skips the registration
\* block, so the handler runs on to the emit and the INSERT.
DownloadMedia(n, outcome) ==
    /\ n \in RunningAt("download")
    /\ outcome \in MediaOutcomes
    /\ outcome # "ok" => CanFail
    /\ faults' = IF outcome = "ok" THEN faults ELSE faults + 1
    /\ SaveIncoming(n, [calls[n] EXCEPT
                          !.att = MediaAttachment(calls[n].msg, outcome, now)])
    /\ UNCHANGED <<history, live, limit, menu, requests, sent, ready, processedMsgIds, store,
                   users, replies, now>>

\* await this.db.query(SELECT ... FROM users ...) settles; when no row is
\* found, generatePassword() returns one of `passwords`.
SelectUserFrom(n, ok, passwords) ==
    /\ n \in RunningAt("select")
    /\ ~ok => CanFail
    /\ LET c == calls[n] IN
       IF ~ok
       THEN /\ calls' = Set(n, [c EXCEPT !.pc = "rejected", !.why = "db_error"])
            /\ faults' = faults + 1
            /\ UNCHANGED emitted
       ELSE /\ faults' = faults
            /\ IF Len(SelectUsers(users, c.reg.countryCode, c.reg.phoneNumber)) = 0
               THEN /\ \E password \in passwords :
                         calls' = Set(n, [c EXCEPT !.pc = "insert_user",
                                                   !.reg.password = password])
                    /\ UNCHANGED emitted
               ELSE SaveIncoming(n, c)
    /\ UNCHANGED <<history, live, limit, menu, requests, sent, ready, processedMsgIds, store,
                   users, replies, now>>

SelectUser(n, ok) == SelectUserFrom(n, ok, Passwords)

\* the same step with the password drawn by generatePassword
SelectUserDrawn(n, ok) == SelectUserFrom(n, ok, GeneratedPasswords)

\* an INSERT INTO users that resolves without a row being written
InsertUserNotPersisted(n, ok) ==
    /\ n \in RunningAt("insert_user")
    /\ ~ok => CanFail
    /\ LET c == calls[n] IN
       IF ~ok
       THEN /\ calls' = Set(n, [c EXCEPT !.pc = "rejected", !.why = "db_error"])
            /\ faults' = faults + 1
       ELSE /\ calls' = Set(n, [c EXCEPT !.pc = "reply"])
            /\ faults' = faults
    /\ UNCHANGED <<history, live, limit, menu, requests, sent, ready, processedMsgIds, store,
                   users, emitted, replies, now>>

\* await this.db.query(INSERT INTO users ...) settles.
InsertUser(n, ok) ==
    /\ n \in RunningAt("insert_user")
    /\ ~ok => CanFail
    /\ LET c == calls[n] IN
       IF ~ok
       THEN /\ calls' = Set(n, [c EXCEPT !.pc = "rejected", !.why = "db_error"])
            /\ faults' = faults + 1
            /\ UNCHANGED users
       ELSE /\ users' = Append(users, UserRow(c.reg))
            /\ calls' = Set(n, [c EXCEPT !.pc = "reply"])
            /\ faults' = faults
    /\ UNCHANGED <<history, live, limit, menu, requests, sent, ready, processedMsgIds, store,
                   emitted, replies, now>>

\* await msg.reply(`Hello ${name}, your verification password is: ...`)
ReplyText(reg) == [to |-> Null, name |-> reg.name, password |-> reg.password]

\* a handler that goes on to the emit without the reply having been sent
ReplySkipped(n, ok) ==
    /\ n \in RunningAt("reply")
    /\ ~ok => CanFail
    /\ LET c == calls[n] IN
       IF ~ok
       THEN /\ calls' = Set(n, [c EXCEPT !.pc = "rejected", !.why = "reply_error"])
            /\ faults' = faults + 1
            /\ UNCHANGED emitted
       ELSE /\ faults' = faults
            /\ SaveIncoming(n, c)
    /\ UNCHANGED <<history, live, limit, menu, requests, sent, ready, processedMsgIds, store,
                   users, replies, now>>

Reply(n, ok) ==
    /\ n \in RunningAt("reply")
    /\ ~ok => CanFail
    /\ LET c == calls[n] IN
       IF ~ok
       THEN /\ calls' = Set(n, [c EXCEPT !.pc = "rejected", !.why = "reply_error"])
            /\ faults' = faults + 1
            /\ UNCHANGED <<replies, emitted>>
       ELSE /\ replies' = Append(replies, [ReplyText(c.reg) EXCEPT !.to = c.msg.from])
            /\ faults' = faults
            /\ SaveIncoming(n, c)
    /\ UNCHANGED <<history, live, limit, menu, requests, sent, ready, processedMsgIds, store,
                   users, now>>

\* await this.db.query(INSERT INTO user_whatsapp ...) settles: the handlers
\* have no try/catch around it, so a rejected query rejects the handler.
InsertDone(n, ok) ==
    /\ n \in RunningAt("insert")
    /\ ~ok => CanFail
    /\ LET c == calls[n] IN
       IF ~ok
       THEN /\ calls' = Set(n, [c EXCEPT !.pc = "rejected", !.why = "db_error"])
            /\ faults' = faults + 1
            /\ UNCHANGED store
       ELSE /\ faults' = faults
            /\ store' = InsertRow(store, c.row)
            /\ calls' = Set(n, IF UniqueViolation(store, c.row)
                               THEN [c EXCEPT !.pc = "rejected",
                                              !.why = "unique_violation"]
                               ELSE [c EXCEPT !.pc = "returned", !.why = "saved"])
    /\ UNCHANGED <<history, live, limit, menu, requests, sent, ready, processedMsgIds, users,
                   emitted, replies, now>>


-----------------------------------------------------------------------------
(* client.on("message", ...) of the service that keys users on the phone    *)
(* digits alone: every text of a phone without a row of users is taken as   *)
(* the name to register.                                                    *)

\* SELECT password_plain, name FROM users WHERE phone = $1
SelectUsersByPhone(us, phone) == SelectSeq(us, LAMBDA u : u.phone = phone)

\* INSERT INTO users (phone, name, password_plain, password_expires): the
\* statement names no country_code
UserRowByPhone(reg) ==
    [country_code |-> Null, phone |-> reg.phoneNumber,
     name |-> reg.name, password_plain |-> reg.password]

\* The event is delivered; the handler runs up to its first await: the media
\* download, the SELECT on users (for a text with a body), or the INSERT.
OnMessageByPhone(i, m) ==
    /\ CanStart(i)
    /\ ready[i]
    /\ m \in menu
    /\ IF IsFromMe(m)
       THEN /\ calls' = Append(calls, Call(i, "message", m, "returned", "echo"))
            /\ UNCHANGED <<processedMsgIds, emitted>>
       ELSE IF m.id \in processedMsgIds[i]
       THEN /\ calls' = Append(calls, Call(i, "message", m, "returned", "duplicate"))
            /\ UNCHANGED <<processedMsgIds, emitted>>
       ELSE /\ processedMsgIds' = [processedMsgIds EXCEPT ![i] = AddProcessed(@, m.id)]
            /\ IF m.hasMedia
               THEN /\ calls' = Append(calls, Call(i, "message", m, "download", ""))
                    /\ UNCHANGED emitted
               ELSE IF m.body # <<>>
               THEN /\ calls' = Append(calls,
                         [Call(i, "message", m, "select_phone", "") EXCEPT
                            !.reg = [NoReg EXCEPT
                               !.phoneNumber = DigitsOnly(m.from),
                               !.name = Trim(m.body)]])
                    /\ UNCHANGED emitted
               ELSE \E t \in EarlierReads(now) :
                       /\ Emit(i, "message", IncomingData(m, NoAtt, t))
                       /\ calls' = Append(calls,
                                  [Call(i, "message", m, "insert", "") EXCEPT
                                      !.data = IncomingData(m, NoAtt, t),
                                      !.row = IncomingRow(m, NoAtt, now)])
    /\ UNCHANGED <<history, live, limit, menu, requests, sent, ready, store, users, replies,
                   faults, now>>

\* await this.db.query(SELECT ... WHERE phone = $1) settles:
\* if (rows.length > 0) return; if (!this.isValidName(body)) return;
SelectUserByPhone(n, ok) ==
    /\ n \in RunningAt("select_phone")
    /\ ~ok => CanFail
    /\ LET c == calls[n] IN
       IF ~ok
       THEN /\ calls' = Set(n, [c EXCEPT !.pc = "rejected", !.why = "db_error"])
            /\ faults' = faults + 1
       ELSE /\ faults' = faults
            /\ IF Len(SelectUsersByPhone(users, c.reg.phoneNumber)) > 0
               THEN calls' = Set(n, [c EXCEPT !.pc = "returned",
                                              !.why = "already_registered"])
               ELSE IF ~isValidName(c.reg.name)
               THEN calls' = Set(n, [c EXCEPT !.pc = "returned",
                                              !.why = "invalid_name"])
               ELSE \E password \in Passwords :
                       calls' = Set(n, [c EXCEPT !.pc = "insert_user_phone",
                                                 !.reg.password = password])
    /\ UNCHANGED <<history, live, limit, menu, requests, sent, ready, processedMsgIds, store,
                   users, emitted, replies, now>>

\* await this.db.query(INSERT INTO users (phone, name, ...)) settles; the
\* reply and the save that follow are those of the other service.
InsertUserByPhone(n, ok) ==
    /\ n \in RunningAt("insert_user_phone")
    /\ ~ok => CanFail
    /\ LET c == calls[n] IN
       IF ~ok
       THEN /\ calls' = Set(n, [c EXCEPT !.pc = "rejected", !.why = "db_error"])
            /\ faults' = faults + 1
            /\ UNCHANGED users
       ELSE /\ users' = Append(users, UserRowByPhone(c.reg))
            /\ calls' = Set(n, [c EXCEPT !.pc = "reply"])
            /\ faults' = faults
    /\ UNCHANGED <<history, live, limit, menu, requests, sent, ready, processedMsgIds, store,
                   emitted, replies, now>>

-----------------------------------------------------------------------------
(* client.on("message_create", ...) *)

\* if (!msg.fromMe && msg.from !== ourId) return;
IsOutgoing(m) == m.fromMe \/ m.from = OwnId

\* const data = {...} of the "message_create" handler
OutgoingData(m, t) ==
    [msg_id |-> m.id, in_out |-> "O", sender |-> m.from, receiver |-> m.to,
     message |-> m.body, attachment_url |-> Null, attachment_name |-> Null,
     edate |-> t]

\* INSERT INTO user_whatsapp (msg_id, in_out, sender, receiver, message, edate):
\* the attachment columns are left NULL.
OutgoingRow(m, t) ==
    [msg_id |-> m.id, in_out |-> "O", sender |-> m.from, receiver |-> m.to,
     message |-> m.body, attachment_name |-> Null, attachment_path |-> Null,
     attachment_type |-> Null, edate |-> t]

\* a "message_create" handler that sends the outgoing text through the
\* dedup check and the registration block of the "message" handler
OnMessageCreateAsIncoming(i, m) ==
    /\ CanStart(i)
    /\ ready[i]
    /\ m \in menu \cup Range(sent)
    /\ IF ~IsOutgoing(m)
       THEN /\ calls' = Append(calls,
                   Call(i, "message_create", m, "returned", "not_outgoing"))
            /\ UNCHANGED <<processedMsgIds, emitted>>
       ELSE IF m.hasMedia
       THEN /\ calls' = Append(calls,
                   Call(i, "message_create", m, "returned", "has_media"))
            /\ UNCHANGED <<processedMsgIds, emitted>>
       ELSE Incoming(i, m, "message_create")
    /\ UNCHANGED <<history, live, limit, menu, requests, sent, ready, store, users, replies,
                   faults, now>>

\* a "message_create" handler without the `if (msg.hasMedia) return;`
OnMessageCreateNoMediaGuard(i, m) ==
    /\ CanStart(i)
    /\ ready[i]
    /\ m \in menu \cup Range(sent)
    /\ IF ~IsOutgoing(m)
       THEN /\ calls' = Append(calls,
                   Call(i, "message_create", m, "returned", "not_outgoing"))
            /\ UNCHANGED emitted
       ELSE \E t \in EarlierReads(now) :
               /\ Emit(i, "message", OutgoingData(m, t))
               /\ calls' = Append(calls,
                      [Call(i, "message_create", m, "insert", "") EXCEPT
                          !.data = OutgoingData(m, t),
                          !.row = OutgoingRow(m, now)])
    /\ UNCHANGED <<history, live, limit, menu, requests, sent, ready, processedMsgIds, store,
                   users, replies, faults, now>>

\* The event is delivered, for a message of the menu or for one the transport
\* created for a send of ours; the handler runs up to its await.
OnMessageCreate(i, m) ==
    /\ CanStart(i)
    /\ ready[i]
    /\ m \in menu \cup Range(sent)
    /\ IF ~IsOutgoing(m)
       THEN /\ calls' = Append(calls,
                   Call(i, "message_create", m, "returned", "not_outgoing"))
            /\ UNCHANGED emitted
       ELSE IF m.hasMedia
       THEN /\ calls' = Append(calls,
                   Call(i, "message_create", m, "returned", "has_media"))
            /\ UNCHANGED emitted
       ELSE \E t \in EarlierReads(now) :
               /\ Emit(i, "message", OutgoingData(m, t))
               /\ calls' = Append(calls,
                      [Call(i, "message_create", m, "insert", "") EXCEPT
                          !.data = OutgoingData(m, t),
                          !.row = OutgoingRow(m, now)])
    /\ UNCHANGED <<history, live, limit, menu, requests, sent, ready, processedMsgIds, store,
                   users, replies, faults, now>>

-----------------------------------------------------------------------------
(* client.on("ready", ...) *)

\* the calls of a lifecycle method of process i
LifecycleCalls(i, kind) ==
    {n \in DOMAIN calls : calls[n].inst = i /\ calls[n].kind = kind}

\* the "ready" events the clients of process i have fired
ReadyEvents(i) == {k \in DOMAIN emitted[i] : emitted[i][k].event = "ready"}

\* The client that initClient created last (onModuleInit calls it once, at
\* the start) has not fired its "ready" event yet, and onModuleDestroy has
\* not destroyed it.  A client fires "ready" once, when its session is
\* established.
SessionPending(i) ==
    /\ LifecycleCalls(i, "onModuleDestroy") = {}
    /\ Cardinality(ReadyEvents(i)) < 1 + Cardinality(LifecycleCalls(i, "initClient"))

OnReady(i) ==
    /\ i \in live
    /\ SessionPending(i)
    /\ ready' = [ready EXCEPT ![i] = TRUE]
    /\ Emit(i, "ready", TRUE)
    /\ UNCHANGED <<history, live, limit, menu, requests, sent, processedMsgIds, store, users,
                   replies, calls, faults, now>>

-----------------------------------------------------------------------------
(* initClient, onModuleDestroy, isReady *)

NoMsg == [id |-> ""]

\* initClient() called on a service that has a client:
\* if (this.client) await this.client.destroy(); this.client = new Client(...);
\* the handlers are registered on the new client.  `ready` is not assigned.
InitClient(i) ==
    /\ CanStart(i)
    /\ LifecycleCalls(i, "onModuleDestroy") = {}
    /\ calls' = Append(calls, Call(i, "initClient", NoMsg, "returned", "restarted"))
    /\ UNCHANGED <<history, live, limit, menu, requests, sent, ready, processedMsgIds, store,
                   users, emitted, replies, faults, now>>

\* onModuleDestroy(): if (this.client) await this.client.destroy();
\* `ready` is not assigned.
OnModuleDestroy(i) ==
    /\ CanStart(i)
    /\ LifecycleCalls(i, "onModuleDestroy") = {}
    /\ calls' = Append(calls, Call(i, "onModuleDestroy", NoMsg, "returned", "destroyed"))
    /\ UNCHANGED <<history, live, limit, menu, requests, sent, ready, processedMsgIds, store,
                   users, emitted, replies, faults, now>>

\* isReady() { return this.ready; }
IsReady(i) ==
    /\ CanStart(i)
    /\ calls' = Append(calls, [Call(i, "isReady", NoMsg, "returned", "") EXCEPT
                                  !.result = <<ready[i]>>])
    /\ UNCHANGED <<history, live, limit, menu, requests, sent, ready, processedMsgIds, store,
                   users, emitted, replies, faults, now>>

-----------------------------------------------------------------------------
(* sendMedia *)

\* let phone = to.replace(/\D/g, ""); if (phone.length === 10) phone = "91" + phone;
\* const jid = `${phone}@c.us`;
Jid(to) ==
    LET phone == DigitsOnly(to)
    IN  (IF Len(phone) = 10 THEN <<"9","1">> \o phone ELSE phone)
            \o <<"@","c",".","u","s">>

\* path.basename(absolutePath)
Basename(filePath) == <<filePath[Len(filePath)]>>

\* mime.lookup(absolutePath) || "application/octet-stream"
MimeLookup(filePath) ==
    IF Basename(filePath) = <<"photo.jpg">> THEN <<"image/jpeg">>
    ELSE IF Basename(filePath) = <<"voice.mp3">> THEN <<"audio/mpeg">>
    ELSE <<"application/octet-stream">>

IsAudio(mimeType) == mimeType = <<"audio/mpeg">>

\* the identifier the transport assigns to the next message it creates
NextSentId == "s" \o ToString(Len(sent) + 1)

Request(to, filePath, caption) == [to |-> to, filePath |-> filePath, caption |-> caption]

\* the parameters of the INSERT INTO user_whatsapp of sendMedia; the
\* controller passes no fileUrl, so attachment_path is filePath
MediaRow(req, resultId, t) ==
    [msg_id |-> resultId, in_out |-> "O", sender |-> OwnId, receiver |-> Jid(req.to),
     message |-> IF req.caption # <<>> THEN req.caption ELSE Null,
     attachment_name |-> Basename(req.filePath),
     attachment_path |-> req.filePath,
     attachment_type |-> MimeLookup(req.filePath), edate |-> t]

\* The call runs up to `await this.client.sendMessage(jid, media ...)`.
\* The request is kept in the invocation's msg field.
SendMedia(i, req, readable) ==
    /\ CanStart(i)
    /\ req \in requests
    /\ ~readable => (ready[i] /\ CanFail)
    /\ IF ~ready[i]
       THEN /\ calls' = Append(calls, Call(i, "sendMedia", req, "rejected", "not_ready"))
            /\ faults' = faults
       ELSE IF ~readable
       THEN /\ calls' = Append(calls, Call(i, "sendMedia", req, "rejected", "read_error"))
            /\ faults' = faults + 1
       ELSE /\ calls' = Append(calls, Call(i, "sendMedia", req, "send", ""))
            /\ faults' = faults
    /\ UNCHANGED <<history, live, limit, menu, requests, sent, ready, processedMsgIds, store,
                   users, emitted, replies, now>>

\* the message the transport creates for the media send
SentMedia(req, id) ==
    Msg(id, TRUE, OwnId, Null, Jid(req.to), TRUE,
        IF IsAudio(MimeLookup(req.filePath)) THEN <<>> ELSE req.caption,
        MimeLookup(req.filePath))

\* await this.client.sendMessage(jid, media ...) settles.  For audio with a
\* caption the caption is sent next, as a text message of its own.
SendDone(n, ok) ==
    /\ n \in RunningAt("send")
    /\ ~ok => CanFail
    /\ LET c == calls[n]
           req == c.msg
       IN  IF ~ok
           THEN /\ calls' = Set(n, [c EXCEPT !.pc = "rejected", !.why = "send_error"])
                /\ faults' = faults + 1
                /\ UNCHANGED sent
           ELSE /\ faults' = faults
                /\ sent' = Append(sent, SentMedia(req, NextSentId))
                /\ calls' = Set(n,
                     IF IsAudio(MimeLookup(req.filePath)) /\ req.caption # <<>>
                     THEN [c EXCEPT !.pc = "send_caption",
                                    !.row = MediaRow(req, NextSentId, 0),
                                    !.result = <<SentMedia(req, NextSentId)>>]
                     ELSE [c EXCEPT !.pc = "insert",
                                    !.row = MediaRow(req, NextSentId, now),
                                    !.result = <<SentMedia(req, NextSentId)>>])
    /\ UNCHANGED <<history, live, limit, menu, requests, ready, processedMsgIds, store, users,
                   emitted, replies, now>>

\* the message the transport creates for a text send
SentText(to, body, id) == Msg(id, TRUE, OwnId, Null, Jid(to), FALSE, body, Null)

\* await this.client.sendMessage(jid, caption) settles.
SendCaptionDone(n, ok) ==
    /\ n \in RunningAt("send_caption")
    /\ ~ok => CanFail
    /\ LET c == calls[n]
           req == c.msg
       IN  IF ~ok
           THEN /\ calls' = Set(n, [c EXCEPT !.pc = "rejected", !.why = "send_error"])
                /\ faults' = faults + 1
                /\ UNCHANGED sent
           ELSE /\ faults' = faults
                /\ sent' = Append(sent, SentText(req.to, req.caption, NextSentId))
                /\ calls' = Set(n, [c EXCEPT
                      !.pc = "insert", !.row.edate = now,
                      !.result = Append(@, SentText(req.to, req.caption, NextSentId))])
    /\ UNCHANGED <<history, live, limit, menu, requests, ready, processedMsgIds, store, users,
                   emitted, replies, now>>


-----------------------------------------------------------------------------
(* sendMessage *)

TextRequest(to, message) == [to |-> to, message |-> message]

\* a sendMessage that goes to the transport whatever the ready flag is
SendMessageNoReadyCheck(i, req) ==
    /\ CanStart(i)
    /\ req \in requests
    /\ calls' = Append(calls, Call(i, "sendMessage", req, "send_text", ""))
    /\ UNCHANGED <<history, live, limit, menu, requests, sent, ready, processedMsgIds, store,
                   users, emitted, replies, faults, now>>

\* The call runs up to `await this.client.sendMessage(jid, message)`.  It
\* makes no INSERT and no io.emit of its own.
SendMessage(i, req) ==
    /\ CanStart(i)
    /\ req \in requests
    /\ calls' = Append(calls,
                  IF ready[i]
                  THEN Call(i, "sendMessage", req, "send_text", "")
                  ELSE Call(i, "sendMessage", req, "rejected", "not_ready"))
    /\ UNCHANGED <<history, live, limit, menu, requests, sent, ready, processedMsgIds, store,
                   users, emitted, replies, faults, now>>

\* a sendMessage that sends again when the transport has failed
SendTextDoneRetry(n, ok) ==
    /\ n \in RunningAt("send_text")
    /\ ~ok => CanFail
    /\ LET c == calls[n]
           req == c.msg
       IN  IF ~ok
           THEN /\ faults' = faults + 1
                /\ UNCHANGED <<sent, calls>>
           ELSE /\ faults' = faults
                /\ sent' = Append(sent, SentText(req.to, req.message, NextSentId))
                /\ calls' = Set(n, [c EXCEPT
                      !.pc = "returned", !.why = "sent",
                      !.result = <<SentText(req.to, req.message, NextSentId)>>])
    /\ UNCHANGED <<history, live, limit, menu, requests, ready, processedMsgIds, store, users,
                   emitted, replies, now>>

\* await this.client.sendMessage(jid, message) settles; its value is returned.
SendTextDone(n, ok) ==
    /\ n \in RunningAt("send_text")
    /\ ~ok => CanFail
    /\ LET c == calls[n]
           req == c.msg
       IN  IF ~ok
           THEN /\ calls' = Set(n, [c EXCEPT !.pc = "rejected", !.why = "send_error"])
                /\ faults' = faults + 1
                /\ UNCHANGED sent
           ELSE /\ faults' = faults
                /\ sent' = Append(sent, SentText(req.to, req.message, NextSentId))
                /\ calls' = Set(n, [c EXCEPT
                      !.pc = "returned", !.why = "sent",
                      !.result = <<SentText(req.to, req.message, NextSentId)>>])
    /\ UNCHANGED <<history, live, limit, menu, requests, ready, processedMsgIds, store, users,
                   emitted, replies, now>>

-----------------------------------------------------------------------------
(* getMessages *)

Query(phone, lim) == [phone |-> phone, limit |-> lim]

Reverse(s) == [k \in 1..Len(s) |-> s[Len(s) + 1 - k]]

\* a filter address that gets no default prefix
FilterAddressNoPrefix(phone) ==
    IF phone = <<>> THEN Null ELSE DigitsOnly(phone) \o <<"@","c",".","u","s">>

\* if (phone) { let p = phone.replace(/\D/g, ""); if (p.length === 10) p = "91" + p;
\*              jid = `${p}@c.us`; }  -- no jid for an empty or missing phone
FilterAddress(phone) == IF phone = <<>> THEN Null ELSE Jid(phone)

\* WHERE sender=$1 OR receiver=$1; without a jid, every row
Where(st, phone) ==
    IF FilterAddress(phone) = Null
    THEN st
    ELSE SelectSeq(st, LAMBDA r : r.sender = FilterAddress(phone)
                                     \/ r.receiver = FilterAddress(phone))

\* ORDER BY edate ASC: every order of the rows in which edate does not
\* decrease (rows of equal edate come in an order the database chooses)
OrderByEdateAsc(rows) ==
    { [k \in 1..Len(rows) |-> rows[p[k]]] :
        p \in { q \in Permutations(1..Len(rows)) :
                  \A j, k \in 1..Len(rows) :
                      j < k => rows[q[j]].edate <= rows[q[k]].edate } }

\* ORDER BY edate DESC
OrderByEdateDesc(rows) == { Reverse(s) : s \in OrderByEdateAsc(rows) }

\* LIMIT $n
Limit(rows, lim) == SubSeq(rows, 1, IF lim < Len(rows) THEN lim ELSE Len(rows))

\* getMessages that returns the rows as the query ordered them
getMessagesNoReverse(st, phone, lim) ==
    { Limit(s, lim) : s \in OrderByEdateDesc(Where(st, phone)) }

\* SELECT ... ORDER BY edate DESC LIMIT $n; return rows.reverse();
\* the results the call may return
getMessages(st, phone, lim) ==
    { Reverse(Limit(s, lim)) : s \in OrderByEdateDesc(Where(st, phone)) }

\* rows.map(row => ({...})) of the service in backend/src
ApiRow(row) ==
    [msg_id |-> row.msg_id, in_out |-> row.in_out, sender |-> row.sender,
     receiver |-> row.receiver, message |-> row.message,
     attachment_name |-> row.attachment_name,
     attachment_url |-> row.attachment_path, edate |-> row.edate]

\* SELECT ... ORDER BY edate ASC LIMIT $n; return rows.map(...)
getMessagesAsc(st, phone, lim) ==
    { [k \in 1..Len(Limit(s, lim)) |-> ApiRow(Limit(s, lim)[k])] :
        s \in OrderByEdateAsc(Where(st, phone)) }

\* The whole call: the SELECT is one statement on the table, and the call
\* has no state of its own.  A failed query rejects the call.
GetMessages(i, q, ok) ==
    /\ CanStart(i)
    /\ q \in requests
    /\ ~ok => CanFail
    /\ IF ok
       THEN /\ \E rows \in getMessages(store, q.phone, q.limit) :
                 calls' = Append(calls,
                     [Call(i, "getMessages", q, "returned", "rows") EXCEPT
                         !.result = rows])
            /\ faults' = faults
       ELSE /\ calls' = Append(calls, Call(i, "getMessages", q, "rejected", "db_error"))
            /\ faults' = faults + 1
    /\ UNCHANGED <<history, live, limit, menu, requests, sent, ready, processedMsgIds, store,
                   users, emitted, replies, now>>

\* the same call in the service of backend/src
GetMessagesAsc(i, q, ok) ==
    /\ CanStart(i)
    /\ q \in requests
    /\ ~ok => CanFail
    /\ IF ok
       THEN /\ \E rows \in getMessagesAsc(store, q.phone, q.limit) :
                 calls' = Append(calls,
                     [Call(i, "getMessages", q, "returned", "rows") EXCEPT
                         !.result = rows])
            /\ faults' = faults
       ELSE /\ calls' = Append(calls, Call(i, "getMessages", q, "rejected", "db_error"))
            /\ faults' = faults + 1
    /\ UNCHANGED <<history, live, limit, menu, requests, sent, ready, processedMsgIds, store,
                   users, emitted, replies, now>>

-----------------------------------------------------------------------------
(* The clock and the host *)

\* time passes between two steps of the event loop
Tick ==
    /\ now < MaxClock
    /\ now' = now + 1
    /\ UNCHANGED <<history, live, limit, menu, requests, sent, ready, processedMsgIds, store,
                   users, emitted, replies, calls, faults>>

\* The promise of an async listener is rejected and nothing handles it
\* (the listeners have no catch, main.ts installs no unhandledRejection
\* listener).  What the runtime does then is set by its
\* --unhandled-rejections mode: it warns, or it raises an uncaught exception
\* that ends the process (the default of the Node.js versions the README
\* asks for).  The step is the second outcome.
UnhandledRejection(n) ==
    /\ n \in DOMAIN calls
    /\ calls[n].kind \in {"message", "message_create"}
    /\ calls[n].pc = "rejected"
    /\ calls[n].inst \in live
    /\ live' = live \ {calls[n].inst}
    /\ UNCHANGED <<history, limit, menu, requests, sent, ready, processedMsgIds, store, users,
                   emitted, replies, calls, faults, now>>

-----------------------------------------------------------------------------
(* Scenarios: the messages the transport may deliver and the requests the  *)
(* API may receive in one run.                                             *)

ToCust == <<"9","8","7","6","5","4","3","2","1","0">>
Str_look == <<"l","o","o","k">>
ReqPhoto == Request(ToCust, <<"uploads/", "photo.jpg">>, Str_look)
ReqVoice == Request(ToCust, <<"uploads/", "voice.mp3">>, Str_look)

ReqDoc == Request(ToCust, <<"uploads/", "report.bin">>, <<>>)
TextHi == TextRequest(ToCust, Str_hi)

AllRequests == {ReqPhoto, ReqVoice, ReqDoc}
AllTexts == {TextHi}
AllQueries == {Query(ToCust, 1), Query(ToCust, 2), Query(<<>>, 1)}

Scenario(ms, rs) == [menu |-> ms, requests |-> rs]

Scenarios ==
    { Scenario({MsgRegisterAl, MsgRegisterBo}, {}),
      Scenario({MsgRegisterA1, MsgRegisterX, MsgRegisterAl}, {}),
      Scenario({MsgPhoto, MsgBlob, MsgOwnFrom}, {}),
      Scenario({MsgSelfRegister, MsgGroupEcho, MsgRegisterAl}, {}),
      Scenario({MsgSelfPhoto}, {ReqVoice}),
      Scenario({MsgPhoto}, {ReqPhoto}) }

SharedScenarios ==
    { Scenario({MsgRegisterAl, MsgPhoto}, {}),
      Scenario({MsgRegisterA1, MsgSelfRegister}, {ReqVoice}) }

InitWith(procs, scenarios, maxCalls) ==
    /\ live = procs
    /\ limit = maxCalls
    /\ \E sc \in scenarios : menu = sc.menu /\ requests = sc.requests
    /\ sent = <<>>
    /\ ready = [i \in Instances |-> FALSE]
    /\ processedMsgIds = [i \in Instances |-> {}]
    /\ store = <<>>
    /\ users = <<>>
    /\ emitted = [i \in Instances |-> <<>>]
    /\ replies = <<>>
    /\ calls = <<>>
    /\ faults = 0
    /\ now = 0
    /\ history = <<>>

\* one service process
Init == InitWith({1}, Scenarios, MaxEvents)

\* two service processes on the same database
InitShared == InitWith({1, 2}, SharedScenarios, MaxSharedEvents)

\* one process with the send operations
SendScenarios ==
    { Scenario({}, {ReqPhoto, ReqDoc}),
      Scenario({}, {ReqVoice}),
      Scenario({MsgHi}, {TextHi}),
      Scenario({MsgHi, MsgOwnFrom}, {Query(ToCust, 2)}) }

InitSend == InitWith({1}, SendScenarios, MaxSendEvents)

\* one process with getMessages and a clock that advances
QueryScenarios ==
    { Scenario({MsgHi, MsgOwnFrom}, {Query(ToCust, 2)}),
      Scenario({MsgHi, MsgOwnFrom}, {Query(ToCust, 1)}),
      Scenario({MsgHi, MsgOther}, {Query(ToCust, 2)}),
      Scenario({MsgHi, MsgOther}, {Query(<<>>, 1)}) }

InitQuery == InitWith({1}, QueryScenarios, MaxQueryEvents)

\* A process that has taken up DedupThreshold - 1 different messages since
\* its start, MsgFirst before the others.  Of the rows and broadcasts of
\* these messages, those of MsgFirst are kept.
Recorded == {"p" \o ToString(k) : k \in 1..(DedupThreshold - 1)}

InitDedup ==
    /\ live = {1}
    /\ limit = MaxDedupEvents
    /\ menu = {MsgFirst, MsgNew1, MsgNew2}
    /\ requests = {}
    /\ sent = <<>>
    /\ ready = [i \in Instances |-> i = 1]
    /\ processedMsgIds = [i \in Instances |-> IF i = 1 THEN Recorded ELSE {}]
    /\ store = <<IncomingRow(MsgFirst, NoAtt, 0)>>
    /\ users = <<>>
    /\ emitted = [i \in Instances |->
                    IF i = 1
                    THEN << [event |-> "ready", data |-> TRUE],
                            [event |-> "message", data |-> IncomingData(MsgFirst, NoAtt, 0)] >>
                    ELSE <<>>]
    /\ replies = <<>>
    /\ calls = <<>>
    /\ faults = 0
    /\ now = 0
    /\ history = <<>>

\* The phones the normalizers are applied to: a leading group of digits
\* followed by a subscriber part, as the address of a registration command
\* and as the `to` of a text send.
PhonePrefixes ==
    { <<>>, <<"9","1">>, <<"1">>, <<"4","4">>, <<"8","6">>, <<"7">>, <<"9","7","1">> }
PhoneTails ==
    { <<>>,
      <<"5","5","5","0","1","2","3">>,
      <<"8","7","6","5","4","3","2","1","0">>,
      <<"9","8","7","6","5","4","3","2","1","0">>,
      <<"4","1","5","5","5","5","0","1","2","3">>,
      <<"9","8","7","6","5","4","3","2","1","0","1">> }
PhoneInputs == { pre \o tail : pre \in PhonePrefixes, tail \in PhoneTails }

PhoneMsg(digits) ==
    Msg("r1", FALSE, digits \o <<"@","c",".","u","s">>, Null, OwnId, FALSE,
        Str_RegisterAl, Null)

PhoneScenarios ==
    { Scenario({PhoneMsg(d)}, {TextRequest(d, Str_hi)}) : d \in PhoneInputs }

InitPhone == InitWith({1}, PhoneScenarios, MaxPhoneEvents)

\* one process that receives two attachments of the same type, or of two
\* types, while time passes
MediaScenarios ==
    { Scenario({MsgPhoto, MsgPhoto2}, {}),
      Scenario({MsgPhoto, MsgBlob}, {}) }

InitMedia == InitWith({1}, MediaScenarios, MaxMediaEvents)

Slots == 1..limit

Next ==
    \/ \E i \in Instances : OnReady(i)
    \/ \E i \in Instances, m \in AllMessages : OnMessage(i, m)
    \/ \E i \in Instances, m \in AllMessages \cup Range(sent) : OnMessageCreate(i, m)
    \/ \E n \in Slots, outcome \in MediaOutcomes : DownloadMedia(n, outcome)
    \/ \E n \in Slots, ok \in BOOLEAN : SelectUser(n, ok)
    \/ \E n \in Slots, ok \in BOOLEAN : InsertUser(n, ok)
    \/ \E n \in Slots, ok \in BOOLEAN : Reply(n, ok)
    \/ \E n \in Slots, ok \in BOOLEAN : InsertDone(n, ok)
    \/ \E i \in Instances, req \in AllRequests, readable \in BOOLEAN :
            SendMedia(i, req, readable)
    \/ \E n \in Slots, ok \in BOOLEAN : SendDone(n, ok)
    \/ \E n \in Slots, ok \in BOOLEAN : SendCaptionDone(n, ok)

Spec == Init /\ [][Next]_vars

SpecShared == InitShared /\ [][Next]_vars

\* the event handlers of plain texts, sendMedia, sendMessage and getMessages
NextSend ==
    \/ \E i \in Instances : OnReady(i)
    \/ \E i \in Instances, m \in menu : OnMessage(i, m)
    \/ \E i \in Instances, m \in menu \cup Range(sent) : OnMessageCreate(i, m)
    \/ \E n \in Slots, ok \in BOOLEAN : InsertDone(n, ok)
    \/ \E i \in Instances, req \in AllRequests, readable \in BOOLEAN :
            SendMedia(i, req, readable)
    \/ \E n \in Slots, ok \in BOOLEAN : SendDone(n, ok)
    \/ \E n \in Slots, ok \in BOOLEAN : SendCaptionDone(n, ok)
    \/ \E i \in Instances, req \in AllTexts : SendMessage(i, req)
    \/ \E n \in Slots, ok \in BOOLEAN : SendTextDone(n, ok)
    \/ \E i \in Instances, q \in AllQueries, ok \in BOOLEAN : GetMessages(i, q, ok)

SpecSend == InitSend /\ [][NextSend]_vars

\* the event handlers of plain texts and getMessages (of both services),
\* while time passes
NextQuery ==
    \/ \E i \in Instances : OnReady(i)
    \/ \E i \in Instances, m \in menu : OnMessage(i, m)
    \/ \E i \in Instances, m \in menu : OnMessageCreate(i, m)
    \/ \E n \in Slots, ok \in BOOLEAN : InsertDone(n, ok)
    \/ \E i \in Instances, q \in AllQueries, ok \in BOOLEAN : GetMessages(i, q, ok)
    \/ \E i \in Instances, q \in AllQueries, ok \in BOOLEAN : GetMessagesAsc(i, q, ok)
    \/ Tick

SpecQuery == InitQuery /\ [][NextQuery]_vars

\* the "message" handler of plain texts on a dedup set that is nearly full
NextDedup ==
    \/ \E i \in Instances, m \in menu : OnMessage(i, m)
    \/ \E n \in Slots, ok \in BOOLEAN : InsertDone(n, ok)

SpecDedup == InitDedup /\ [][NextDedup]_vars

\* the two places that normalize a phone: the registration block of the
\* "message" handler and sendMessage
NextPhone ==
    \/ \E i \in Instances : OnReady(i)
    \/ \E i \in Instances, m \in menu : OnMessage(i, m)
    \/ \E i \in Instances, req \in requests : SendMessage(i, req)
    \/ \E n \in Slots, ok \in BOOLEAN : SendTextDone(n, ok)

SpecPhone == InitPhone /\ [][NextPhone]_vars

\* the "message" handler of attachments, while time passes
NextMedia ==
    \/ \E i \in Instances : OnReady(i)
    \/ \E i \in Instances, m \in menu : OnMessage(i, m)
    \/ \E n \in Slots, outcome \in MediaOutcomes : DownloadMedia(n, outcome)
    \/ \E n \in Slots, ok \in BOOLEAN : InsertDone(n, ok)
    \/ Tick

SpecMedia == InitMedia /\ [][NextMedia]_vars

\* one process of the service that keys users on the phone digits
ByPhoneScenarios ==
    { Scenario({MsgHi, MsgRegisterAl}, {}),
      Scenario({MsgRegisterA1, MsgPhoto}, {}),
      Scenario({MsgHi, MsgOther}, {}) }

InitByPhone == InitWith({1}, ByPhoneScenarios, MaxByPhoneEvents)

NextByPhone ==
    \/ \E i \in Instances : OnReady(i)
    \/ \E i \in Instances, m \in menu : OnMessageByPhone(i, m)
    \/ \E n \in Slots, outcome \in MediaOutcomes : DownloadMedia(n, outcome)
    \/ \E n \in Slots, ok \in BOOLEAN : SelectUserByPhone(n, ok)
    \/ \E n \in Slots, ok \in BOOLEAN : InsertUserByPhone(n, ok)
    \/ \E n \in Slots, ok \in BOOLEAN : Reply(n, ok)
    \/ \E n \in Slots, ok \in BOOLEAN : InsertDone(n, ok)

SpecByPhone == InitByPhone /\ [][NextByPhone]_vars

\* two processes whose clients are re-initialised and destroyed
InitLife == InitWith({1, 2}, {Scenario({}, {})}, MaxLifeEvents)

NextLife ==
    \/ \E i \in Instances : OnReady(i)
    \/ \E i \in Instances : InitClient(i)
    \/ \E i \in Instances : OnModuleDestroy(i)
    \/ \E i \in Instances : IsReady(i)

SpecLife == InitLife /\ [][NextLife]_vars

\* one process that registers a phone with a password drawn at random
InitPassword == InitWith({1}, {Scenario({MsgRegisterAl}, {})}, MaxPasswordEvents)

NextPassword ==
    \/ \E i \in Instances : OnReady(i)
    \/ \E i \in Instances, m \in menu : OnMessage(i, m)
    \/ \E n \in Slots, ok \in BOOLEAN : SelectUserDrawn(n, ok)
    \/ \E n \in Slots, ok \in BOOLEAN : InsertUser(n, ok)
    \/ \E n \in Slots, ok \in BOOLEAN : Reply(n, ok)
    \/ \E n \in Slots, ok \in BOOLEAN : InsertDone(n, ok)

SpecPassword == InitPassword /\ [][NextPassword]_vars

\* One process that sends to a phone and fetches the history of the same
\* phone; the phone is given empty, with ten digits, with the prefix, with
\* seven digits, or formatted.
AddressInputs ==
    { <<>>,
      ToCust,
      <<"9","1">> \o ToCust,
      <<"5","5","5","0","1","2","3">>,
      <<"+","9","1"," ","9","8","7","6","5","-","4","3","2","1","0">> }

AddressScenarios ==
    { Scenario({}, {TextRequest(p, Str_hi),
                    Request(p, <<"uploads/", "photo.jpg">>, Str_look),
                    Query(p, 1), Query(p, 2)}) : p \in AddressInputs }

InitAddress == InitWith({1}, AddressScenarios, MaxAddressEvents)

TextRequests == {r \in requests : DOMAIN r = {"to", "message"}}
MediaRequests == {r \in requests : DOMAIN r = {"to", "filePath", "caption"}}
Queries == {r \in requests : DOMAIN r = {"phone", "limit"}}

NextAddress ==
    \/ \E i \in Instances : OnReady(i)
    \/ \E i \in Instances, req \in TextRequests : SendMessage(i, req)
    \/ \E n \in Slots, ok \in BOOLEAN : SendTextDone(n, ok)
    \/ \E i \in Instances, m \in Range(sent) : OnMessageCreate(i, m)
    \/ \E i \in Instances, req \in MediaRequests, readable \in BOOLEAN :
            SendMedia(i, req, readable)
    \/ \E n \in Slots, ok \in BOOLEAN : SendDone(n, ok)
    \/ \E n \in Slots, ok \in BOOLEAN : InsertDone(n, ok)
    \/ \E i \in Instances, q \in Queries, ok \in BOOLEAN : GetMessages(i, q, ok)
    \/ \E i \in Instances, q \in Queries, ok \in BOOLEAN : GetMessagesAsc(i, q, ok)

SpecAddress == InitAddress /\ [][NextAddress]_vars

\* one service process and the two handlers that record a transport
\* message: plain texts of customers, of the own account and of a group
DirectionScenarios ==
    { Scenario({MsgHi, MsgOwnFrom, MsgSelfRegister}, {}),
      Scenario({MsgGroupEcho, MsgOther, MsgOwnFrom}, {}) }

InitDirection == InitWith({1}, DirectionScenarios, MaxDirectionEvents)

NextDirection ==
    \/ \E i \in Instances : OnReady(i)
    \/ \E i \in Instances, m \in menu : OnMessage(i, m)
    \/ \E i \in Instances, m \in menu : OnMessageCreate(i, m)
    \/ \E n \in Slots, ok \in BOOLEAN : InsertDone(n, ok)
    \/ Tick

SpecDirection == InitDirection /\ [][NextDirection]_vars

-----------------------------------------------------------------------------
(* The page of the frontend (frontend/src/app/page.tsx) *)

\* @Query('limit') limit: number = 100 of the controller; the page asks
\* for `${API_URL}/messages` with no parameter
ControllerLimit == 100

\* `local-${Date.now()}`
LocalId(t) == "local-" \o ToString(t)

\* x.msg_id.startsWith("local-"): the transport's identifiers never start
\* so, and the page has made its own from clock values up to now
IsLocalId(id) == \E t \in 0..now : id = LocalId(t)

\* list.sort((a, b) => new Date(a.edate).getTime() - new Date(b.edate).getTime()):
\* Array.prototype.sort is stable, entries of equal edate keep their order
InsertByEdate(sorted, e) ==
    SelectSeq(sorted, LAMBDA x : x.edate <= e.edate) \o <<e>>
        \o SelectSeq(sorted, LAMBDA x : x.edate > e.edate)

RECURSIVE SortByEdate(_)
SortByEdate(list) ==
    IF list = <<>> THEN <<>>
    ELSE InsertByEdate(SortByEdate(SubSeq(list, 1, Len(list) - 1)), list[Len(list)])

\* list.filter(x => !(x.msg_id.startsWith("local-") && x.in_out === "O"
\*                    && x.message === m.message))
WithoutLocalOf(list, m) ==
    SelectSeq(list, LAMBDA x : ~(IsLocalId(x.msg_id) /\ x.in_out = "O"
                                 /\ x.message = m.message))

\* list.findIndex(x => x.msg_id === m.msg_id), 0 for -1
FindIndex(list, id) ==
    IF \E k \in DOMAIN list : list[k].msg_id = id
    THEN CHOOSE k \in DOMAIN list :
            /\ list[k].msg_id = id
            /\ \A j \in 1..(k - 1) : list[j].msg_id # id
    ELSE 0

\* mergeDbMessage that always pushes the entry
mergeDbMessageAlwaysPush(prev, m) ==
    SortByEdate(Append(WithoutLocalOf(prev, m), m))

\* the updater mergeDbMessage hands to setHistory
mergeDbMessage(prev, m) ==
    LET list == WithoutLocalOf(prev, m)
        exists == FindIndex(list, m.msg_id)
    IN  SortByEdate(IF exists # 0
                    THEN [list EXCEPT ![exists] = m]
                    ELSE Append(list, m))

\* rows.filter((msg, index, self) =>
\*     index === self.findIndex(m => m.msg_id === msg.msg_id))
FirstByMsgId(rows) ==
    LET keep == {k \in DOMAIN rows : FindIndex(rows, rows[k].msg_id) = k}
        F[k \in 0..Len(rows)] ==
            IF k = 0 THEN <<>>
            ELSE IF k \in keep THEN Append(F[k - 1], rows[k]) ELSE F[k - 1]
    IN  F[Len(rows)]

\* loadHistory: the response of GET /messages arrives and replaces the
\* list.  The page calls it when it finds the session ready.
LoadHistory(i) ==
    /\ i \in live
    /\ ready[i]
    /\ \E rows \in getMessages(store, <<>>, ControllerLimit) :
           history' = SortByEdate(FirstByMsgId(rows))
    /\ UNCHANGED <<live, limit, menu, requests, sent, ready, processedMsgIds, store,
                   users, emitted, replies, calls, faults, now>>

\* the entry socket.on("message") builds from the event
LiveEntry(raw) ==
    [whatsID |-> raw.msg_id, msg_id |-> raw.msg_id,
     in_out |-> IF raw.in_out = "O" THEN "O" ELSE "I",
     sender |-> raw.sender, receiver |-> raw.receiver,
     message |-> raw.message, edate |-> raw.edate]

\* socket.on("message", raw): a broadcast of the service reaches the page
OnSocketMessage(i, k) ==
    /\ k \in DOMAIN emitted[i]
    /\ emitted[i][k].event = "message"
    /\ history' = mergeDbMessage(history, LiveEntry(emitted[i][k].data))
    /\ UNCHANGED <<live, limit, menu, requests, sent, ready, processedMsgIds, store,
                   users, emitted, replies, calls, faults, now>>

\* the temporary entry send() merges after `await axios.post(.../send-media)`
LocalEntry(req, t) ==
    [whatsID |-> LocalId(t), msg_id |-> LocalId(t), in_out |-> "O",
     sender |-> <<"m","e">>, receiver |-> req.to,
     message |-> IF req.caption # <<>> THEN req.caption ELSE Basename(req.filePath),
     edate |-> t]

\* send(): the POST of a file has succeeded
MergeLocal(n) ==
    /\ n \in DOMAIN calls
    /\ calls[n].kind = "sendMedia"
    /\ calls[n].pc = "returned"
    /\ history' = mergeDbMessage(history, LocalEntry(calls[n].msg, now))
    /\ UNCHANGED <<live, limit, menu, requests, sent, ready, processedMsgIds, store,
                   users, emitted, replies, calls, faults, now>>

MsgLook == Msg("m14", FALSE, CustId, Null, OwnId, FALSE, Str_look, Null)

FrontScenarios ==
    { Scenario({MsgLook}, {ReqPhoto, TextHi}),
      Scenario({MsgHi}, {ReqDoc}) }

\* one service process and one page
InitFront == InitWith({1}, FrontScenarios, MaxFrontEvents)

\* The sends are followed where they succeed: send() merges a temporary
\* entry only after a POST that succeeded.
NextFront ==
    \/ \E i \in Instances : OnReady(i)
    \/ \E i \in Instances, m \in menu : OnMessage(i, m)
    \/ \E i \in Instances, req \in TextRequests : SendMessage(i, req)
    \/ \E n \in Slots : SendTextDone(n, TRUE)
    \/ \E i \in Instances, m \in Range(sent) : OnMessageCreate(i, m)
    \/ \E i \in Instances, req \in MediaRequests : SendMedia(i, req, TRUE)
    \/ \E n \in Slots : SendDone(n, TRUE)
    \/ \E n \in Slots, ok \in BOOLEAN : InsertDone(n, ok)
    \/ Tick
    \/ \E i \in Instances : LoadHistory(i)
    \/ \E i \in Instances, k \in Slots : OnSocketMessage(i, k)
    \/ \E n \in Slots : MergeLocal(n)

SpecFront == InitFront /\ [][NextFront]_vars

\* one service process under a runtime that ends the process on an
\* unhandled rejection; a process that has ended takes no further step
NextHost ==
    \/ \E n \in Slots : UnhandledRejection(n)
    \/ live = {1} /\ Next

SpecHost == Init /\ [][NextHost]_vars


-----------------------------------------------------------------------------
(* Vocabulary of the properties *)

Quiescent == Running = {}

EventKinds == {"message", "message_create"}

\* the invocations of the event handlers for the message with this id
EventsOf(id) ==
    {n \in DOMAIN calls : calls[n].kind \in EventKinds /\ calls[n].msg.id = id}

\* the events a handler took up: not turned away by its direction guard
TakenUp(id) ==
    {n \in EventsOf(id) : calls[n].why \notin {"echo", "not_outgoing", "has_media"}}

\* a collaborator (database, transport) failed under this invocation
Failed(c) == c.why \in {"db_error", "reply_error", "send_error", "read_error"}

RowsOf(id) == {k \in DOMAIN store : store[k].msg_id = id}

BroadcastsOf(i, id) ==
    {k \in DOMAIN emitted[i] :
        emitted[i][k].event = "message" /\ emitted[i][k].data.msg_id = id}

EventIds == {m.id : m \in AllMessages \cup Range(sent)}

-----------------------------------------------------------------------------
(* Properties *)

\* C1: in one process, once the handlers have finished, a message whose
\* events were taken up more than once (and none of them hit a failing
\* collaborator) has exactly one row in user_whatsapp and was broadcast
\* exactly once.
C1_ExactlyOnce ==
    Quiescent =>
        \A id \in EventIds :
            (/\ Cardinality(TakenUp(id)) > 1
             /\ \A n \in TakenUp(id) : ~Failed(calls[n]))
            => /\ Cardinality(RowsOf(id)) = 1
               /\ Cardinality(BroadcastsOf(1, id)) = 1

\* C2: a message is broadcast only once its row is in user_whatsapp, and an
\* insert that hits the unique index on msg_id adds no broadcast: at any
\* time a process has broadcast a msg_id at most as often as the table
\* holds a row for it.
C2_BroadcastAfterInsert ==
    \A i \in Instances : \A id \in EventIds :
        Cardinality(BroadcastsOf(i, id)) <= Cardinality(RowsOf(id))

\* C3: no two rows of user_whatsapp have the same msg_id.
C3_UniqueMsgId ==
    \A j, k \in DOMAIN store : store[j].msg_id = store[k].msg_id => j = k

\* C3 witness: sendMedia has stored its row, and an insert was attempted
\* for a msg_id that is already stored.
C3_Witness ==
    /\ \E n \in DOMAIN calls : calls[n].kind = "sendMedia" /\ calls[n].why = "saved"
    /\ \E n \in DOMAIN calls : calls[n].why = "unique_violation"

\* C4: when both processes took up the same message (and the database did
\* not fail otherwise), one row exists for it and neither handler ended in
\* an error: the later insert is a benign duplicate.
C4_DuplicateIgnored ==
    Quiescent =>
        \A id \in EventIds :
            (/\ \A i \in live : \E n \in TakenUp(id) : calls[n].inst = i
             /\ \A n \in TakenUp(id) : ~Failed(calls[n]))
            => /\ Cardinality(RowsOf(id)) = 1
               /\ \A n \in TakenUp(id) : calls[n].pc = "returned"

\* the rows of users for one phone, and the replies sent to one address
UsersOf(countryCode, phoneNumber) ==
    {k \in DOMAIN users :
        users[k].country_code = countryCode /\ users[k].phone = phoneNumber}
RepliesTo(address) == {k \in DOMAIN replies : replies[k].to = address}

\* C5: at most one row of users exists for a phone and at most one
\* credential reply has been sent to it.
C5_OneRegistration ==
    /\ \A k \in DOMAIN users :
          Cardinality(UsersOf(users[k].country_code, users[k].phone)) <= 1
    /\ \A k \in DOMAIN replies : Cardinality(RepliesTo(replies[k].to)) <= 1


\* a delivered text event of the form "register <something>", as the
\* handler reads it: no attachment, and the trimmed body begins with the
\* prefix in any letter case
IsCommand(m) ==
    /\ ~m.hasMedia
    /\ m.body # <<>>
    /\ LET text == Trim(m.body)
       IN  /\ Len(text) >= Len(RegisterPrefix)
           /\ \A k \in DOMAIN RegisterPrefix : ToLowerChar(text[k]) = RegisterPrefix[k]

\* the name of a command, and the rule the name has to meet
CommandName(m) == Trim(SubSeq(Trim(m.body), Len(RegisterPrefix) + 1, Len(Trim(m.body))))
NameRejected(name) ==
    \/ \E k \in DOMAIN name : name[k] \notin Letters \cup Whitespace
    \/ Len(Trim(name)) < 2

\* the delivered events that are neither echoes nor duplicates and have
\* run to their end
Processed ==
    {n \in DOMAIN calls :
        /\ calls[n].kind = "message"
        /\ Finished(calls[n])
        /\ calls[n].why \notin {"echo", "duplicate"}}

StoredInbound(m) ==
    \E k \in DOMAIN store :
        /\ store[k].msg_id = m.id
        /\ store[k].in_out = "I"
        /\ store[k].message = m.body

\* C6: every delivered registration command that is neither an echo nor a
\* duplicate is stored as an inbound row with its original body once its
\* handler has finished (unless a database statement of the handler failed).
C6_CommandRecorded ==
    \A n \in Processed :
        (IsCommand(calls[n].msg) /\ calls[n].why # "db_error")
        => StoredInbound(calls[n].msg)

\* C7: a registration command whose name has a character other than letters
\* and whitespace, or fewer than 2 characters after trimming, leads to no
\* row of users and no reply for that name, and once its handler has
\* finished the message is stored (unless the insert itself failed in the
\* database).
C7_InvalidNameSilent ==
    \A n \in DOMAIN calls :
        LET c == calls[n] IN
        (/\ c.kind = "message"
         /\ IsCommand(c.msg)
         /\ NameRejected(CommandName(c.msg)))
        => /\ c.pc \notin {"select", "insert_user", "reply"}
           /\ c.reg = NoReg
           /\ \A k \in DOMAIN users : users[k].name # CommandName(c.msg)
           /\ \A k \in DOMAIN replies : replies[k].name # CommandName(c.msg)
           /\ (n \in Processed /\ c.why # "db_error") => StoredInbound(c.msg)

\* C7 witness: a command with a digit in the name and a command with a
\* one-letter name have both been handled and stored.
C7_Witness ==
    /\ \E n \in Processed : calls[n].msg = MsgRegisterA1 /\ StoredInbound(MsgRegisterA1)
    /\ \E n \in Processed : calls[n].msg = MsgRegisterX /\ StoredInbound(MsgRegisterX)

\* the media ingestion of this invocation failed: the try block did not
\* reach the assignment of attachment_path
MediaFailed(c) ==
    /\ c.kind = "message"
    /\ c.msg.hasMedia
    /\ c.why \notin {"echo", "duplicate"}
    /\ c.pc # "download"
    /\ c.att.path = Null

\* C8: when media ingestion failed for a delivered event, the message is
\* broadcast, and stored once the handler has finished (unless the insert
\* failed in the database), and every attachment field of the broadcast and
\* of the row is null.
C8_MediaFailureNullAttachment ==
    \A n \in DOMAIN calls :
        LET c == calls[n] IN
        MediaFailed(c) =>
            /\ \E k \in BroadcastsOf(c.inst, c.msg.id) :
                  LET d == emitted[c.inst][k].data
                  IN  /\ d.attachment_name = Null
                      /\ d.attachment_url = Null
                      /\ d.attachment_type = Null
            /\ (Finished(c) /\ c.why # "db_error") =>
                  \E k \in RowsOf(c.msg.id) :
                      /\ store[k].attachment_name = Null
                      /\ store[k].attachment_path = Null
                      /\ store[k].attachment_type = Null

\* an echo, in the words of the claim
IsEchoEvent(m) == m.fromMe \/ m.from = OwnId \/ m.author = OwnId

\* the step starts the handler of this kind of event
Delivers(kind) ==
    /\ Len(calls') = Len(calls) + 1
    /\ calls'[Len(calls')].kind = kind

\* C9: the delivery of an echo to the "message" handler changes neither
\* the dedup set nor user_whatsapp, users, the replies or the broadcasts,
\* and the handler ends there.
C9_EchoDiscarded ==
    [][(Delivers("message") /\ IsEchoEvent(calls'[Len(calls')].msg))
         => /\ UNCHANGED <<processedMsgIds, store, users, emitted, replies>>
            /\ calls'[Len(calls')].pc = "returned"]_vars

\* C9 witness: echoes of each kind (flagged fromMe, from the own address,
\* authored by the own address) were delivered while the dedup set held an id.
C9_Witness ==
    /\ processedMsgIds[1] # {}
    /\ \E n \in DOMAIN calls : calls[n].why = "echo" /\ calls[n].msg = MsgGroupEcho
    /\ \E n \in DOMAIN calls : calls[n].why = "echo" /\ calls[n].msg = MsgSelfRegister

\* a self-sent message, in the words of the claim
IsSelfSentEvent(m) == m.fromMe \/ m.from = OwnId

\* the step is one of a "message_create" invocation: its start or its resumption
StepOfCreate(n) ==
    /\ n \in DOMAIN calls'
    /\ calls'[n].kind = "message_create"
    /\ (n \in DOMAIN calls => calls'[n] # calls[n])

\* C10: no step of a "message_create" handler changes the dedup set, users
\* or the replies, a self-sent event never waits on a registration
\* statement, and every row stored for a self-sent event is outbound.
C10_SelfSentNoRegistration ==
    [][\A n \in 1..limit :
          StepOfCreate(n) =>
             /\ UNCHANGED <<processedMsgIds, users, replies>>
             /\ calls'[n].pc \in {"insert", "returned", "rejected"}
             /\ calls'[n].reg = NoReg
             /\ IsSelfSentEvent(calls'[n].msg) =>
                   \A k \in DOMAIN store' :
                      store'[k].msg_id = calls'[n].msg.id => store'[k].in_out = "O"]_vars

\* C10 witness: the self-sent text "Register Al" went through the
\* "message_create" handler and is stored as an outbound row, and no row of
\* users exists.
C10_Witness ==
    /\ \E n \in DOMAIN calls :
          /\ calls[n].kind = "message_create"
          /\ calls[n].msg = MsgSelfRegister
          /\ calls[n].why = "saved"
    /\ \E k \in DOMAIN store : store[k].msg_id = MsgSelfRegister.id /\ store[k].in_out = "O"
    /\ users = <<>>

\* C11: the delivery of a self-sent event that carries an attachment to the
\* "message_create" handler adds no row to user_whatsapp and publishes no
\* broadcast, and the handler ends there; this holds as well while the
\* sendMedia call that caused the event still waits for its own INSERT.
C11_SelfSentMediaSkipped ==
    [][(/\ Delivers("message_create")
        /\ IsSelfSentEvent(calls'[Len(calls')].msg)
        /\ calls'[Len(calls')].msg.hasMedia)
         => /\ UNCHANGED <<store, emitted>>
            /\ calls'[Len(calls')].pc = "returned"]_vars

\* C11 witness: the event of a sent media message was handled while the
\* sendMedia call that sent it had not yet stored its row.
C11_Witness ==
    \E n, k \in DOMAIN calls :
        /\ calls[n].kind = "sendMedia"
        /\ calls[n].pc = "insert"
        /\ calls[k].kind = "message_create"
        /\ calls[k].why = "has_media"
        /\ calls[k].msg = calls[n].result[1]

SendKinds == {"sendMessage", "sendMedia"}

\* the "message_create" event of this message was delivered, every handler
\* of it has finished and the database failed under none of them
EchoHandled(m) ==
    /\ \E n \in DOMAIN calls : calls[n].kind = "message_create" /\ calls[n].msg = m
    /\ \A n \in DOMAIN calls :
          (calls[n].kind = "message_create" /\ calls[n].msg = m)
          => (Finished(calls[n]) /\ calls[n].why # "db_error")

\* the outbound rows stored for the messages the transport created under
\* this send call
OutboundRowsOf(c) ==
    {k \in DOMAIN store :
        /\ store[k].in_out = "O"
        /\ \E j \in DOMAIN c.result : c.result[j].id = store[k].msg_id}

\* C12: once a send call (sendMessage or sendMedia) has returned and the
\* events of the messages it sent have been handled, user_whatsapp holds
\* exactly one outbound row for the call, and its msg_id is the id of the
\* message the transport returned to the call.
C12_OneOutboundRowPerSend ==
    \A n \in DOMAIN calls :
        LET c == calls[n] IN
        (/\ c.kind \in SendKinds
         /\ c.pc = "returned"
         /\ \A j \in DOMAIN c.result : EchoHandled(c.result[j]))
        => /\ Cardinality(OutboundRowsOf(c)) = 1
           /\ \A k \in OutboundRowsOf(c) : store[k].msg_id = c.result[1].id

\* the handler of this event failed: it was rejected, or its media
\* ingestion failed
EventFailed(c) ==
    /\ c.kind \in EventKinds
    /\ (c.pc = "rejected" \/ MediaFailed(c))

\* C13: after the handler of an event has failed, the process keeps
\* running, and every event of another message that is handled later and
\* meets no failure of its own is stored and broadcast.
C13_FailureConfined ==
    \A n \in DOMAIN calls :
        EventFailed(calls[n]) =>
            /\ calls[n].inst \in live
            /\ \A k \in DOMAIN calls :
                  (/\ k > n
                   /\ calls[k].kind \in EventKinds
                   /\ calls[k].msg.id # calls[n].msg.id
                   /\ calls[k].why = "saved")
                  => /\ RowsOf(calls[k].msg.id) # {}
                     /\ BroadcastsOf(calls[k].inst, calls[k].msg.id) # {}

\* the step delivers an event to the "message" handler that reaches the
\* dedup check
ChecksDedup ==
    /\ Delivers("message")
    /\ calls'[Len(calls')].why # "echo"

\* C14: a dedup check for an id that is recorded reports it as seen and
\* leaves the set as it is; a check for an id that is not recorded reports
\* it as new, and the id is in the set when the check ends.
C14_CheckReportsAndRecords ==
    [][ChecksDedup =>
          LET c == calls'[Len(calls')] IN
          IF c.msg.id \in processedMsgIds[c.inst]
          THEN /\ c.why = "duplicate"
               /\ UNCHANGED processedMsgIds
          ELSE /\ c.why # "duplicate"
               /\ c.msg.id \in processedMsgIds'[c.inst]]_vars

\* C15: the dedup set of a process never holds more than DedupThreshold
\* ids after a step, and a step that changes a set of DedupThreshold ids
\* leaves it empty.
C15_CacheBounded ==
    [][\A i \in Instances :
          /\ Cardinality(processedMsgIds'[i]) <= DedupThreshold
          /\ (/\ Cardinality(processedMsgIds[i]) = DedupThreshold
              /\ processedMsgIds'[i] # processedMsgIds[i])
             => processedMsgIds'[i] = {}]_vars

\* C15 witness: the set was filled up to DedupThreshold and then cleared.
C15_Witness ==
    /\ processedMsgIds[1] = {}
    /\ \E n \in DOMAIN calls : calls[n].msg = MsgNew1 /\ calls[n].why # "duplicate"
    /\ \E n \in DOMAIN calls : calls[n].msg = MsgNew2 /\ calls[n].why # "duplicate"

\* C16: the dedup check of a new id on a set of DedupThreshold ids leaves
\* none of these ids in the set; and when MsgFirst, whose id was recorded
\* first, is delivered again right after that, it is not reported as a
\* duplicate and goes on to its INSERT.
C16_ClearForgetsFirstId ==
    [][ChecksDedup =>
          LET c == calls'[Len(calls')] IN
          /\ (/\ Cardinality(processedMsgIds[c.inst]) = DedupThreshold
              /\ c.msg.id \notin processedMsgIds[c.inst])
             => processedMsgIds'[c.inst] \cap processedMsgIds[c.inst] = {}
          /\ (processedMsgIds[c.inst] = {} /\ c.msg = MsgFirst)
             => (c.why # "duplicate" /\ c.pc = "insert")]_vars

\* C16 witness: after the clear, MsgFirst was delivered again and passed
\* the dedup check.
C16_Witness ==
    \E n \in DOMAIN calls :
        /\ calls[n].kind = "message"
        /\ calls[n].msg = MsgFirst
        /\ calls[n].why # "duplicate"

\* the registration block has split the phone of this event
HasSplit(c) == c.kind = "message" /\ c.reg # NoReg

AddressSuffix == <<"@","c",".","u","s">>

\* C17: wherever a phone of exactly 10 digits is normalized, the prefix is
\* "91" and the subscriber number is the 10 digits: in the split of the
\* registration block, and in the address sendMessage sends to.
C17_TenDigitsDefaultPrefix ==
    \A n \in DOMAIN calls :
        LET c == calls[n] IN
        /\ (HasSplit(c) /\ Len(DigitsOnly(c.msg.from)) = 10)
           => /\ c.reg.countryCode = <<"9","1">>
              /\ c.reg.phoneNumber = DigitsOnly(c.msg.from)
        /\ (/\ c.kind = "sendMessage"
            /\ c.pc = "returned"
            /\ Len(DigitsOnly(c.msg.to)) = 10)
           => c.result[1].to = <<"9","1">> \o DigitsOnly(c.msg.to) \o AddressSuffix

\* the reference rule: the recognized prefixes with the total length of a
\* number that has them
RecognizedPrefixes ==
    { [prefix |-> <<"9","1">>, total |-> 12],
      [prefix |-> <<"1">>, total |-> 11],
      [prefix |-> <<"4","4">>, total |-> 12],
      [prefix |-> <<"8","6">>, total |-> 13] }

Recognized(digits) ==
    {e \in RecognizedPrefixes :
        /\ Len(digits) = e.total
        /\ \A k \in DOMAIN e.prefix : digits[k] = e.prefix[k]}

ReferenceSplit(digits) ==
    IF Recognized(digits) # {}
    THEN LET e == CHOOSE e \in Recognized(digits) : TRUE
         IN  [prefix |-> e.prefix,
              subscriber |-> SubSeq(digits, Len(e.prefix) + 1, Len(digits))]
    ELSE IF Len(digits) > 10
    THEN [prefix |-> SubSeq(digits, 1, Len(digits) - 10),
          subscriber |-> SubSeq(digits, Len(digits) - 9, Len(digits))]
    ELSE [prefix |-> <<>>, subscriber |-> digits]

\* C18: for a phone whose digits are not exactly 10, the split of the
\* registration block is the split of the reference rule.
C18_SplitMatchesReference ==
    \A n \in DOMAIN calls :
        LET c == calls[n]
            digits == DigitsOnly(c.msg.from)
        IN  (HasSplit(c) /\ Len(digits) # 10)
            => /\ c.reg.countryCode = ReferenceSplit(digits).prefix
               /\ c.reg.phoneNumber = ReferenceSplit(digits).subscriber

\* C18 witness: a phone of 13 digits that begins with 91 (recognized by its
\* prefix but not by its length) was split into a 3-digit prefix and the
\* trailing 10 digits.
C18_Witness ==
    \E n \in DOMAIN calls :
        /\ HasSplit(calls[n])
        /\ Len(DigitsOnly(calls[n].msg.from)) = 13
        /\ calls[n].reg.countryCode = <<"9","1","9">>
        /\ Len(calls[n].reg.phoneNumber) = 10

\* the getMessages calls that returned rows
Answered == {n \in DOMAIN calls : calls[n].kind = "getMessages" /\ calls[n].pc = "returned"}

\* C19: a getMessages call returns at most `limit` rows, each of them a row
\* of user_whatsapp; with a phone, the sender or the receiver of every
\* returned row is the address of the phone; and the rows come in
\* non-decreasing order of edate.
C19_GetMessages ==
    \A n \in Answered :
        LET q == calls[n].msg
            rows == calls[n].result
        IN  /\ Len(rows) <= q.limit
            /\ \A k \in DOMAIN rows :
                  \E j \in DOMAIN store :
                      /\ store[j].msg_id = rows[k].msg_id
                      /\ store[j].sender = rows[k].sender
                      /\ store[j].receiver = rows[k].receiver
                      /\ store[j].edate = rows[k].edate
            /\ q.phone # <<>> =>
                  \A k \in DOMAIN rows :
                      \/ rows[k].sender = Jid(q.phone)
                      \/ rows[k].receiver = Jid(q.phone)
            /\ \A j, k \in DOMAIN rows : j < k => rows[j].edate <= rows[k].edate

\* C19 witness: a call with a phone returned two rows of different edate,
\* the older first, that the table holds in the other order.
C19_Witness ==
    \E n \in Answered :
        LET rows == calls[n].result
        IN  /\ calls[n].msg.phone # <<>>
            /\ Len(rows) = 2
            /\ rows[1].edate < rows[2].edate
            /\ Len(store) = 2
            /\ store[1].msg_id = rows[2].msg_id
            /\ store[2].msg_id = rows[1].msg_id

\* C20: every step leaves the rows that user_whatsapp held before it in
\* place and unchanged: the table of before is a prefix of the table of
\* after.
C20_StoreAppendOnly ==
    [][/\ Len(store') >= Len(store)
       /\ SubSeq(store', 1, Len(store)) = store]_vars

\* C20 witness: the table holds two rows and an INSERT for a msg_id that is
\* stored was attempted.
C20_Witness ==
    /\ Len(store) >= 2
    /\ \E n \in DOMAIN calls :
          /\ calls[n].why = "unique_violation"
          /\ store[1].msg_id = calls[n].msg.id

\* the step is one of invocation n alone: no other invocation starts or moves
OnlyStepOf(n) ==
    /\ Len(calls') = Len(calls)
    /\ \A k \in DOMAIN calls : k # n => calls'[k] = calls[k]

\* C21: when the transport fails under a sendMessage call, the call ends
\* rejected with that error in this very step, and the step creates no
\* transport message, no row and no broadcast; a rejected sendMessage call
\* takes no further step (it does not send again).
C21_SendFailureSurfaced ==
    [][\A n \in DOMAIN calls :
          calls[n].kind = "sendMessage" =>
             /\ (/\ calls[n].pc = "send_text"
                 /\ faults' > faults
                 /\ OnlyStepOf(n))
                => /\ calls'[n].pc = "rejected"
                   /\ calls'[n].why = "send_error"
                   /\ calls'[n].result = <<>>
                   /\ UNCHANGED <<sent, store, emitted>>
             /\ calls[n].pc = "rejected" => calls'[n] = calls[n]]_vars

\* C21 witness: a sendMessage call was rejected by a transport failure.
C21_Witness ==
    \E n \in DOMAIN calls :
        /\ calls[n].kind = "sendMessage"
        /\ calls[n].pc = "rejected"
        /\ calls[n].why = "send_error"
        /\ store = <<>>

\* C22: in one process at most one event handler is between its start and
\* its end at any time.
C22_OneEventAtATime ==
    \A i \in Instances :
        Cardinality({n \in Running :
                        calls[n].inst = i /\ calls[n].kind \in EventKinds}) <= 1

\* C23: when an event is delivered to a process in which an earlier handler
\* of the same message was rejected, no handler of the message is still
\* running and no row of the message is stored, the event is not turned
\* away as a duplicate.
C23_RedeliveryAfterFailure ==
    [][(/\ ChecksDedup
        /\ LET c == calls'[Len(calls')] IN
           /\ \E n \in DOMAIN calls :
                 /\ calls[n].kind = "message"
                 /\ calls[n].inst = c.inst
                 /\ calls[n].msg.id = c.msg.id
                 /\ calls[n].pc = "rejected"
           /\ \A n \in DOMAIN calls :
                 calls[n].msg.id = c.msg.id => Finished(calls[n])
           /\ RowsOf(c.msg.id) = {})
         => calls'[Len(calls')].why # "duplicate"]_vars

\* C24: when msg.reply has failed under a registration command, the row of
\* users that was written is there, no reply with its credential was sent,
\* and the command message is stored as an inbound row and was broadcast.
C24_ReplyFailureStillRecorded ==
    \A n \in DOMAIN calls :
        LET c == calls[n] IN
        c.why = "reply_error" =>
            /\ UsersOf(c.reg.countryCode, c.reg.phoneNumber) # {}
            /\ StoredInbound(c.msg)
            /\ BroadcastsOf(c.inst, c.msg.id) # {}

\* the key of users for an address: its digits, prefix followed by phone
IsUserOf(u, address) == u.country_code \o u.phone = DigitsOnly(address)

\* C25: for every credential reply that was sent, users holds a row for the
\* phone the reply went to, with the credential of the reply.
C25_ReplyAfterRecord ==
    \A k \in DOMAIN replies :
        \E u \in DOMAIN users :
            /\ IsUserOf(users[u], replies[k].to)
            /\ users[u].password_plain = replies[k].password

\* C25 witness: a credential reply was sent.
C25_Witness ==
    /\ replies # <<>>
    /\ users # <<>>
    /\ replies[1].password = users[1].password_plain

\* the handler of this registration command has written its row of users
RegisteredBy(c) ==
    /\ c.kind = "message"
    /\ c.reg.password # Null
    /\ c.pc \notin {"select", "insert_user"}
    /\ ~(c.pc = "rejected" /\ c.why = "db_error" /\ c.row = NoRow)
    /\ \E u \in DOMAIN users :
          /\ IsUserOf(users[u], c.msg.from)
          /\ users[u].password_plain = c.reg.password

CredentialSent(c) ==
    \E k \in DOMAIN replies :
        replies[k].to = c.msg.from /\ replies[k].password = c.reg.password

Passed(i, id) ==
    {n \in DOMAIN calls :
        /\ calls[n].kind = "message"
        /\ calls[n].inst = i
        /\ calls[n].msg.id = id
        /\ calls[n].why \notin {"echo", "duplicate"}}

\* C27: while a process has had no more deliveries than the threshold of
\* its dedup set (so the set was never cleared), at most one delivery of a
\* message passed the dedup check of the process, whatever the earlier
\* invocations are waiting for.
C27_AtMostOnePasses ==
    Len(calls) <= DedupThreshold =>
        \A i \in Instances : \A id \in EventIds :
            Cardinality(Passed(i, id)) <= 1

\* C27 witness: MsgPhoto was delivered again while its first handler was
\* waiting for the media download, and was turned away as a duplicate.
C27_Witness ==
    \E n, k \in DOMAIN calls :
        /\ n < k
        /\ calls[n].msg = MsgPhoto
        /\ calls[n].pc = "download"
        /\ calls[k].msg = MsgPhoto
        /\ calls[k].why = "duplicate"

\* C28: for every row of user_whatsapp a broadcast with its msg_id has been
\* published by the process.
C28_StoredIsPublished ==
    \A k \in DOMAIN store :
        \E i \in Instances : BroadcastsOf(i, store[k].msg_id) # {}

\* C29: when a handler has published its data and stored its row, the two
\* agree on msg_id, direction, sender, receiver, message, the attachment
\* fields and edate.
C29_PublishedEqualsStored ==
    \A n \in DOMAIN calls :
        LET c == calls[n] IN
        (c.kind \in EventKinds /\ c.why = "saved") =>
            /\ c.data.msg_id = c.row.msg_id
            /\ c.data.in_out = c.row.in_out
            /\ c.data.sender = c.row.sender
            /\ c.data.receiver = c.row.receiver
            /\ c.data.message = c.row.message
            /\ c.data.attachment_name = c.row.attachment_name
            /\ c.data.attachment_url = c.row.attachment_path
            /\ c.data.edate = c.row.edate

\* C30: any two attachments a process has ingested have different stored
\* filenames, and no two rows name the same stored file.
C30_DistinctFilenames ==
    /\ \A n, k \in DOMAIN calls :
          (/\ n # k
           /\ calls[n].att.path # Null
           /\ calls[k].att.path # Null)
          => calls[n].att.name # calls[k].att.name
    /\ \A j, k \in DOMAIN store :
          (j # k /\ store[j].attachment_path # Null)
          => store[j].attachment_path # store[k].attachment_path

\* the invocations of one handler that took the message up
TakenUpBy(kind, id) == {n \in TakenUp(id) : calls[n].kind = kind}

\* C31: no message is taken up both by a "message" handler and by a
\* "message_create" handler (their direction guards exclude each other), and
\* no two rows and no two broadcasts of one msg_id differ in direction.
C31_OneDirectionPerMessage ==
    /\ \A id \in EventIds :
          TakenUpBy("message", id) = {} \/ TakenUpBy("message_create", id) = {}
    /\ \A j, k \in DOMAIN store :
          store[j].msg_id = store[k].msg_id => store[j].in_out = store[k].in_out
    /\ \A i, i2 \in Instances :
          \A j \in DOMAIN emitted[i], k \in DOMAIN emitted[i2] :
             (/\ emitted[i][j].event = "message"
              /\ emitted[i2][k].event = "message"
              /\ emitted[i][j].data.msg_id = emitted[i2][k].data.msg_id)
             => emitted[i][j].data.in_out = emitted[i2][k].data.in_out

\* C31 witness: MsgOwnFrom (fromMe false, from the own address) was delivered
\* to both handlers; "message" turned it away and "message_create" stored it.
C31_Witness ==
    /\ \E n \in DOMAIN calls :
          /\ calls[n].kind = "message"
          /\ calls[n].msg = MsgOwnFrom
          /\ calls[n].why = "echo"
    /\ \E n \in DOMAIN calls :
          /\ calls[n].kind = "message_create"
          /\ calls[n].msg = MsgOwnFrom
          /\ calls[n].why = "saved"

\* C32: in the service that keys users on the phone digits, a text whose
\* sender already has a row of users, and a text that is not a valid name,
\* are stored as inbound rows and broadcast once their handler has returned.
C32_TextStillRecorded ==
    \A n \in DOMAIN calls :
        LET c == calls[n] IN
        (/\ c.kind = "message"
         /\ c.pc = "returned"
         /\ c.why \in {"already_registered", "invalid_name"})
        => /\ StoredInbound(c.msg)
           /\ BroadcastsOf(c.inst, c.msg.id) # {}

\* C33: the table users changes only by the INSERT of a "message" handler
\* whose event is no echo, has no attachment, and has a body that, trimmed,
\* begins with "register " in any letter case followed by a valid name; the
\* step appends one row for the sender's digits and leaves the other rows.
C33_RecordOnlyByCommand ==
    [][users' # users =>
         \E n \in DOMAIN calls :
            LET c == calls[n]
                m == c.msg
                name == Trim(Substring(Trim(m.body), 9))
            IN  /\ c.kind = "message"
                /\ c.pc = "insert_user"
                /\ OnlyStepOf(n)
                /\ ~m.fromMe /\ m.from # OwnId /\ m.author # OwnId
                /\ ~m.hasMedia
                /\ StartsWith(ToLowerCase(Trim(m.body)), RegisterPrefix)
                /\ isValidName(name)
                /\ Len(users') = Len(users) + 1
                /\ SubSeq(users', 1, Len(users)) = users
                /\ users'[Len(users')].name = name
                /\ IsUserOf(users'[Len(users')], m.from)]_vars

\* C33 witness: the command " register Bo " has created the row of Bo.
C33_Witness ==
    /\ users # <<>>
    /\ users[1].name = <<"B", "o">>
    /\ \E n \in DOMAIN calls :
          calls[n].msg = MsgRegisterBo /\ calls[n].pc \in {"reply", "insert", "returned"}

\* a send operation is called in this step
StartsSend ==
    /\ Len(calls') = Len(calls) + 1
    /\ calls'[Len(calls')].kind \in {"sendMessage", "sendMedia"}

\* C34: a sendMessage or sendMedia called while the ready flag of its
\* process is false ends rejected with "not ready" in the step of the call,
\* which sends nothing and inserts nothing; the rejected call takes no
\* further step.
C34_NotReadyRejected ==
    [][/\ (StartsSend /\ ~ready[calls'[Len(calls')].inst])
          => /\ calls'[Len(calls')].pc = "rejected"
             /\ calls'[Len(calls')].why = "not_ready"
             /\ calls'[Len(calls')].result = <<>>
             /\ UNCHANGED <<sent, store, emitted>>
       /\ \A n \in DOMAIN calls :
             calls[n].why = "not_ready" => calls'[n] = calls[n]]_vars

\* C34 witness: a send operation was called before the ready event and was
\* rejected; nothing was sent or stored.
C34_Witness ==
    /\ \E n \in DOMAIN calls :
          /\ calls[n].kind \in {"sendMessage", "sendMedia"}
          /\ calls[n].why = "not_ready"
          /\ ~ready[calls[n].inst]
    /\ sent = <<>>
    /\ store = <<>>

\* the client of process i is there and has fired its "ready" event
SessionEstablished(i) ==
    /\ LifecycleCalls(i, "onModuleDestroy") = {}
    /\ Cardinality(ReadyEvents(i)) = 1 + Cardinality(LifecycleCalls(i, "initClient"))

\* C35: isReady() reports true only while the session of the process is
\* established: not after its client was destroyed (by onModuleDestroy, or
\* by initClient before it creates the next client) and before the next
\* "ready" event; and the flag itself is true only then.
C35_ReadyOnlyWhileEstablished ==
    [][/\ (/\ Len(calls') = Len(calls) + 1
           /\ calls'[Len(calls')].kind = "isReady"
           /\ calls'[Len(calls')].result = <<TRUE>>)
          => SessionEstablished(calls'[Len(calls')].inst)
       /\ \A i \in Instances : ready'[i] => SessionEstablished(i)']_vars

\* four characters, each an uppercase letter A to Z
IsCredential(p) == Len(p) = 4 /\ \A k \in DOMAIN p : p[k] \in Range(UpperSeq)

\* C36: every password a handler has generated, every password stored in
\* users and every password sent in a reply is a string of exactly four
\* uppercase letters, whatever Math.random() returned.
C36_PasswordFourUppercase ==
    /\ \A n \in DOMAIN calls :
          calls[n].reg.password # Null => IsCredential(calls[n].reg.password)
    /\ \A u \in DOMAIN users : IsCredential(users[u].password_plain)
    /\ \A k \in DOMAIN replies : IsCredential(replies[k].password)

\* C36 witness: a password drawn from the least and the greatest values of
\* Math.random() was stored and sent.
C36_Witness ==
    /\ users # <<>>
    /\ users[1].password_plain = <<"A", "Z", "A", "Z">>
    /\ replies # <<>>
    /\ replies[1].password = <<"A", "Z", "A", "Z">>

\* C38: the prefix and the subscriber number that a handler got from
\* extractCountryCodeAndPhone, put together, are the digits of the sender's
\* address, in their order.
C38_SplitKeepsDigits ==
    \A n \in DOMAIN calls :
        (calls[n].kind = "message" /\ calls[n].reg.countryCode # Null)
        => calls[n].reg.countryCode \o calls[n].reg.phoneNumber
              = DigitsOnly(calls[n].msg.from)

\* C38 witness: an address of 86 and eleven digits was split by the China
\* case.
C38_Witness ==
    \E n \in DOMAIN calls :
        /\ calls[n].kind = "message"
        /\ calls[n].reg.countryCode = <<"8", "6">>
        /\ Len(calls[n].reg.phoneNumber) = 11

\* the send operations for the phone p that the transport has carried out
SentTo(p) ==
    {k \in DOMAIN calls :
        /\ calls[k].kind \in {"sendMessage", "sendMedia"}
        /\ calls[k].msg.to = p
        /\ calls[k].result # <<>>}

\* the stored rows of the messages sent to p
RowsSentTo(p) ==
    {r \in DOMAIN store :
        \E k \in SentTo(p) : \E j \in DOMAIN calls[k].result :
            store[r].msg_id = calls[k].result[j].id}

\* getMessages returns in this step
GetStep ==
    /\ Len(calls') = Len(calls) + 1
    /\ calls'[Len(calls')].kind = "getMessages"
    /\ calls'[Len(calls')].pc = "returned"

SameAddress(p) ==
    \A k \in SentTo(p) : \A j \in DOMAIN calls[k].result :
        calls[k].result[j].to = FilterAddress(p)

Fetched(c, r) == \E x \in DOMAIN c.result : c.result[x].msg_id = store[r].msg_id

\* C37 as stated: when getMessages(p) returns, the address it filtered on is
\* the address of every message that sendMessage(p) and sendMedia(p) have
\* sent, and its result holds every stored row of these messages.
C37_SameAddressAndHistory ==
    [][GetStep =>
          LET c == calls'[Len(calls')] IN
          /\ SameAddress(c.msg.phone)
          /\ \A r \in RowsSentTo(c.msg.phone) : Fetched(c, r)]_vars

\* C37 amended: the same for a phone that is not the empty string, and for
\* the rows that the LIMIT of the query leaves room for.
C37_SameAddressForGivenPhone ==
    [][(GetStep /\ calls'[Len(calls')].msg.phone # <<>>) =>
          LET c == calls'[Len(calls')] IN
          /\ SameAddress(c.msg.phone)
          /\ \A r \in RowsSentTo(c.msg.phone) :
                Fetched(c, r) \/ Len(c.result) = c.msg.limit]_vars

\* C37 witness: a message was sent to the ten digits of ToCust, and
\* getMessages for the same ten digits has returned its row.
C37_Witness ==
    \E n \in DOMAIN calls : \E k \in SentTo(ToCust) :
        /\ calls[n].kind = "getMessages"
        /\ calls[n].msg.phone = ToCust
        /\ calls[n].result # <<>>
        /\ calls[n].result[1].msg_id = calls[k].result[1].id
        /\ calls[n].result[1].receiver = Jid(ToCust)

\* C39: after any sequence of history loads, live message events and local
\* temporary entries merged by mergeDbMessage, the page's history holds no
\* two entries with the same msg_id and is ordered by edate ascending.
C39_HistoryUniqueAndOrdered ==
    \A j, k \in DOMAIN history :
        j < k => /\ history[j].msg_id # history[k].msg_id
                 /\ history[j].edate <= history[k].edate

\* a local temporary entry and, after it, a later entry of the transport
C39_Witness ==
    \E j, k \in DOMAIN history :
        /\ j < k
        /\ IsLocalId(history[j].msg_id)
        /\ ~IsLocalId(history[k].msg_id)
        /\ history[j].edate < history[k].edate

=============================================================================
